---- MODULE Spec2Model ----
(***************************************************************************)
(* A model of pytmx's tile/GID decoding core:                              *)
(*   - decode_gid and its process-wide flag cache   (src/pytmx/utils.py)   *)
(*   - extract_chunks / stitch_chunks               (src/pytmx/chunk.py)   *)
(*   - unpack_gids, decode_chunk_data, reshape_data,                       *)
(*     get_rotation_from_flags, point_in_polygon,                          *)
(*     is_convex                                    (src/pytmx/utils.py)   *)
(*   - TiledTileLayer.parse_xml                (src/pytmx/tile_layer.py)   *)
(*                                                                         *)
(* A 32-bit GID is kept as two 16-bit words [hi, lo] (value hi*2^16 + lo), *)
(* so that every value in 0..2^32-1 is representable and the bit tests of  *)
(* the code are computed bit by bit.                                       *)
(***************************************************************************)
EXTENDS Integers, Sequences, FiniteSets, TLC

VARIABLES
    \* ---- decode_gid ----
    flag_cache,     \* constants.flag_cache: raw GID -> TileFlags
    gid_pc,         \* per thread: position inside decode_gid
    gid_arg,        \* per thread: the raw_gid argument
    gid_flags,      \* per thread: the local variable `flags`
    gid_ret,        \* per thread: the returned (base, flags) pair
    gid_path,       \* per thread: the branch the call took (history)
    \* ---- stitch_chunks ----
    st_chunks,      \* argument `chunks`
    st_width,       \* argument `width`
    st_height,      \* argument `height`
    full_grid,      \* local `full_grid`
    chunk_index,    \* loop index over chunks (1-based)
    st_y,           \* loop variable y of the current chunk
    st_x,           \* loop variable x of the current chunk
    out_of_bounds_logged,
    st_pc,          \* "init", "chunk", "cell", "done", "IndexError"
    st_log,         \* logger.warning records of the call, in order
    reg_calls,      \* parent.register_gid_check_flags calls, in order
    \* ---- extract_chunks ----
    ex_nodes,       \* argument `chunk_nodes`
    ex_encoding,    \* argument `encoding`
    ex_compression, \* argument `compression`
    zstd_module,    \* whether the optional zstd module was importable
    ex_i,           \* loop index over chunk_nodes (1-based)
    ex_chunks,      \* local `chunks`
    ex_pc,          \* "loop", "done", "ValueError"
    ex_log,         \* logger.error / logger.warning records, in order
    \* ---- unpack_gids / decode_chunk_data, one call of each ----
    dc_text,        \* argument `text`
    dc_encoding,    \* argument `encoding`
    dc_compression, \* argument `compression`
    dc_pc,          \* "call", "unpacked", "done"
    unpack_ret,     \* outcome of unpack_gids
    chunk_ret,      \* outcome of decode_chunk_data
    \* ---- reshape_data ----
    rs_gids,        \* argument `gids`
    rs_width,       \* argument `width`
    rs_pc,          \* "call", "done", "ValueError"
    rs_ret,         \* the returned rows
    \* ---- TiledTileLayer.parse_xml ----
    ly_node,        \* the <layer> node: its width and its <data> child
    ly_pc,          \* "find", "unpack", "register", "reshape", "done", errors
    ly_gids,        \* the list returned by unpack_gids
    ly_temp,        \* local `temp`, built cell by cell
    ly_data,        \* self.data
    ly_calls,       \* parent.register_gid_check_flags calls, in order
    \* ---- get_rotation_from_flags ----
    rot_gid,        \* the raw GID whose flags are looked at
    rot_pc,         \* "decode", "rotate", "done"
    rot_flags,      \* the TileFlags of rot_gid
    rot_ret,        \* the returned angle
    \* ---- point_in_polygon / is_convex ----
    pg_point,       \* argument `point`
    pg_polygon,     \* argument `polygon`
    pg_pc,          \* "call", "cast", "done"
    pg_i,           \* loop index of point_in_polygon (1-based)
    pg_inside,      \* local `inside`
    pg_convex,      \* outcome of is_convex
    \* ---- pixels_to_tile_pos ----
    tp_map,         \* orientation, tilewidth, tileheight, staggeraxis, staggerindex
    tp_position,    \* argument `position`
    tp_pc,          \* "idle", "ready", "done"
    tp_ret,         \* the returned tile position
    \* ---- compute_adjusted_position ----
    ad_args,        \* the nine arguments
    ad_pc,          \* "idle", "ready", "done"
    ad_ret,         \* the returned position
    \* ---- TiledObject ----
    ob_node,        \* the <object> node given to the constructor
    ob_self,        \* the attributes of the object
    ob_other,       \* a second object, argument of intersects_with_polygon
    ob_pc,          \* "idle", "new", "ready", "ValueError"
    ob_adjusted,    \* number of adjust_gid_object_position calls so far
    ob_call,        \* the last method called, with its arguments
    ob_ret          \* what that call returned or raised

gidVars == <<flag_cache, gid_pc, gid_arg, gid_flags, gid_ret, gid_path>>
stVars == <<st_chunks, st_width, st_height, full_grid, chunk_index, st_y,
            st_x, out_of_bounds_logged, st_pc, st_log, reg_calls>>
exVars == <<ex_nodes, ex_encoding, ex_compression, zstd_module, ex_i,
            ex_chunks, ex_pc, ex_log>>
dcVars == <<dc_text, dc_encoding, dc_compression, dc_pc, unpack_ret,
            chunk_ret>>
rsVars == <<rs_gids, rs_width, rs_pc, rs_ret>>
lyVars == <<ly_node, ly_pc, ly_gids, ly_temp, ly_data, ly_calls>>
rotVars == <<rot_gid, rot_pc, rot_flags, rot_ret>>
pgVars == <<pg_point, pg_polygon, pg_pc, pg_i, pg_inside, pg_convex>>
tpVars == <<tp_map, tp_position, tp_pc, tp_ret>>
adVars == <<ad_args, ad_pc, ad_ret>>
obVars == <<ob_node, ob_self, ob_other, ob_pc, ob_adjusted, ob_call, ob_ret>>
geoVars == <<tpVars, adVars, obVars>>
libVars == <<dcVars, rsVars, lyVars, rotVars, pgVars, geoVars>>
coreVars == <<gidVars, stVars, exVars,
                   libVars>>
vars == <<gidVars, stVars, exVars, libVars>>

(***************************************************************************)
(* 32-bit unsigned words                                                   *)
(***************************************************************************)
W16 == 2^16

Gid(hi, lo) == [hi |-> hi, lo |-> lo]

RECURSIVE BitAnd(_, _, _)
\* a & b on n-bit non-negative integers, bit by bit
BitAnd(a, b, n) ==
    IF n = 0 THEN 0
    ELSE (IF a % 2 = 1 /\ b % 2 = 1 THEN 1 ELSE 0)
         + 2 * BitAnd(a \div 2, b \div 2, n - 1)

RECURSIVE BitOr(_, _, _)
\* a | b on n-bit non-negative integers, bit by bit
BitOr(a, b, n) ==
    IF n = 0 THEN 0
    ELSE (IF a % 2 = 1 \/ b % 2 = 1 THEN 1 ELSE 0)
         + 2 * BitOr(a \div 2, b \div 2, n - 1)

And32(a, b) == Gid(BitAnd(a.hi, b.hi, 16), BitAnd(a.lo, b.lo, 16))
Or32(a, b) == Gid(BitOr(a.hi, b.hi, 16), BitOr(a.lo, b.lo, 16))
\* ~a restricted to the 32 bits a raw GID has
Not32(a) == Gid(W16 - 1 - a.hi, W16 - 1 - a.lo)
Lt32(a, b) == a.hi < b.hi \/ (a.hi = b.hi /\ a.lo < b.lo)

(***************************************************************************)
(* pytmx.constants                                                         *)
(***************************************************************************)
GID_TRANS_FLIPX == Gid(2^15, 0)     \* 1 << 31
GID_TRANS_FLIPY == Gid(2^14, 0)     \* 1 << 30
GID_TRANS_ROT == Gid(2^13, 0)       \* 1 << 29
GID_MASK == Or32(Or32(GID_TRANS_FLIPX, GID_TRANS_FLIPY), GID_TRANS_ROT)

TileFlags(h, v, d) ==
    [flipped_horizontally |-> h, flipped_vertically |-> v,
     flipped_diagonally |-> d]
empty_flags == TileFlags(FALSE, FALSE, FALSE)
EmptyCache == [k \in {} |-> empty_flags]

(***************************************************************************)
(* decode_gid as one sequential call: the returned pair and the cache the  *)
(* call leaves behind.                                                     *)
(***************************************************************************)
GidResult(base, flags) == [base |-> base, flags |-> flags]
NoResult == [base |-> Gid(0, 0), flags |-> empty_flags]

ComputeFlags(raw_gid) ==
    TileFlags(And32(raw_gid, GID_TRANS_FLIPX) = GID_TRANS_FLIPX,
              And32(raw_gid, GID_TRANS_FLIPY) = GID_TRANS_FLIPY,
              And32(raw_gid, GID_TRANS_ROT) = GID_TRANS_ROT)

CachePut(cache, raw_gid, flags) ==
    [k \in DOMAIN cache \cup {raw_gid} |->
        IF k = raw_gid THEN flags ELSE cache[k]]

\* a mutant of decode_gid: the slow path returns raw_gid without masking
decode_gid_unmasked(raw_gid, cache) ==
    IF Lt32(raw_gid, GID_TRANS_ROT)
    THEN [ret |-> GidResult(raw_gid, empty_flags), cache |-> cache]
    ELSE IF raw_gid \in DOMAIN cache
    THEN [ret |-> GidResult(raw_gid, cache[raw_gid]), cache |-> cache]
    ELSE [ret |-> GidResult(raw_gid, ComputeFlags(raw_gid)),
          cache |-> CachePut(cache, raw_gid, ComputeFlags(raw_gid))]

decode_gid(raw_gid, cache) ==
    IF Lt32(raw_gid, GID_TRANS_ROT)
    THEN [ret |-> GidResult(raw_gid, empty_flags), cache |-> cache]
    ELSE IF raw_gid \in DOMAIN cache
    THEN [ret |-> GidResult(And32(raw_gid, Not32(GID_MASK)), cache[raw_gid]),
          cache |-> cache]
    ELSE [ret |-> GidResult(And32(raw_gid, Not32(GID_MASK)),
                            ComputeFlags(raw_gid)),
          cache |-> CachePut(cache, raw_gid, ComputeFlags(raw_gid))]

(***************************************************************************)
(* Idle values of the parts a specification does not exercise              *)
(***************************************************************************)
StitchIdle ==
    /\ st_chunks = <<>>
    /\ st_width = 0
    /\ st_height = 0
    /\ full_grid = <<>>
    /\ chunk_index = 0
    /\ st_y = 0
    /\ st_x = 0
    /\ out_of_bounds_logged = FALSE
    /\ st_pc = "idle"
    /\ st_log = <<>>
    /\ reg_calls = <<>>

ExtractIdle ==
    /\ ex_nodes = <<>>
    /\ ex_encoding = "None"
    /\ ex_compression = "None"
    /\ zstd_module = FALSE
    /\ ex_i = 0
    /\ ex_chunks = <<>>
    /\ ex_pc = "idle"
    /\ ex_log = <<>>

DecoderIdle ==
    /\ dc_text = <<>>
    /\ dc_encoding = "None"
    /\ dc_compression = "None"
    /\ dc_pc = "idle"
    /\ unpack_ret = <<>>
    /\ chunk_ret = <<>>

ReshapeIdle ==
    /\ rs_gids = <<>>
    /\ rs_width = 0
    /\ rs_pc = "idle"
    /\ rs_ret = <<>>

LayerIdle ==
    /\ ly_node = <<>>
    /\ ly_pc = "idle"
    /\ ly_gids = <<>>
    /\ ly_temp = <<>>
    /\ ly_data = <<>>
    /\ ly_calls = <<>>

RotationIdle ==
    /\ rot_gid = <<>>
    /\ rot_pc = "idle"
    /\ rot_flags = <<>>
    /\ rot_ret = 0

PolygonIdle ==
    /\ pg_point = <<>>
    /\ pg_polygon = <<>>
    /\ pg_pc = "idle"
    /\ pg_i = 0
    /\ pg_inside = FALSE
    /\ pg_convex = FALSE

TilePosIdle ==
    /\ tp_map = <<>>
    /\ tp_position = <<>>
    /\ tp_pc = "idle"
    /\ tp_ret = <<>>

AdjustIdle ==
    /\ ad_args = <<>>
    /\ ad_pc = "idle"
    /\ ad_ret = <<>>

ObjectIdle ==
    /\ ob_node = <<>>
    /\ ob_self = <<>>
    /\ ob_other = <<>>
    /\ ob_pc = "idle"
    /\ ob_adjusted = 0
    /\ ob_call = <<>>
    /\ ob_ret = <<>>

GeoIdle == TilePosIdle /\ AdjustIdle /\ ObjectIdle

LibIdle ==
    /\ DecoderIdle /\ ReshapeIdle /\ LayerIdle /\ RotationIdle /\ PolygonIdle
    /\ GeoIdle

(***************************************************************************)
(* decode_gid: calls                                                       *)
(***************************************************************************)
NThreads == 2
Threads == 1..NThreads

\* raw GIDs the calls are made with: both sides of 2^29, every flag bit
\* alone, combined flags, and the extremes 0 and 2^32-1
GidInputs ==
    { Gid(0, 0), Gid(0, 1), Gid(2^13 - 1, W16 - 1),
      Gid(2^13, 0), Gid(2^13, 1), Gid(2^14, 5), Gid(2^15, 4),
      Gid(2^15 + 2^13, 7), Gid(2^15 + 2^14, 0), Gid(W16 - 1, W16 - 1) }

\* raw GIDs of the concurrent calls
ThreadInputs == { Gid(0, 1), Gid(2^13, 0), Gid(2^15, 4), Gid(W16 - 1, W16 - 1) }

GidIdle ==
    /\ flag_cache = EmptyCache
    /\ gid_pc = [t \in Threads |-> "idle"]
    /\ gid_arg = [t \in Threads |-> Gid(0, 0)]
    /\ gid_flags = [t \in Threads |-> empty_flags]
    /\ gid_ret = [t \in Threads |-> NoResult]
    /\ gid_path = [t \in Threads |-> "none"]

CoreIdle == GidIdle /\ StitchIdle /\ ExtractIdle

GidPath(raw_gid, cache) ==
    IF Lt32(raw_gid, GID_TRANS_ROT) THEN "fast"
    ELSE IF raw_gid \in DOMAIN cache THEN "hit" ELSE "miss"

\* One whole call of decode_gid by the main thread (sequential use).
DecodeGidCall(raw_gid) ==
    LET r == decode_gid(raw_gid, flag_cache) IN
    /\ flag_cache' = r.cache
    /\ gid_arg' = [gid_arg EXCEPT ![1] = raw_gid]
    /\ gid_ret' = [gid_ret EXCEPT ![1] = r.ret]
    /\ gid_pc' = [gid_pc EXCEPT ![1] = "done"]
    /\ gid_path' = [gid_path EXCEPT ![1] = GidPath(raw_gid, flag_cache)]
    /\ UNCHANGED <<gid_flags, stVars, exVars,
                   libVars>>

InitGid == GidIdle /\ StitchIdle /\ ExtractIdle /\ LibIdle
NextGid == \E raw_gid \in GidInputs : DecodeGidCall(raw_gid)
SpecGid == InitGid /\ [][NextGid]_vars

(***************************************************************************)
(* decode_gid: the statements of a call, interleaved between threads       *)
(***************************************************************************)
\* a thread enters decode_gid(raw_gid)
GidCall(t, raw_gid) ==
    /\ gid_pc[t] = "idle"
    /\ gid_pc' = [gid_pc EXCEPT ![t] = "l88"]
    /\ gid_arg' = [gid_arg EXCEPT ![t] = raw_gid]
    /\ UNCHANGED <<flag_cache, gid_flags, gid_ret, gid_path, stVars, exVars,
                   libVars>>

\* line 88-89: if raw_gid < GID_TRANS_ROT: return raw_gid, empty_flags
GidFastPath(t) ==
    /\ gid_pc[t] = "l88"
    /\ IF Lt32(gid_arg[t], GID_TRANS_ROT)
       THEN /\ gid_ret' = [gid_ret EXCEPT
                              ![t] = GidResult(gid_arg[t], empty_flags)]
            /\ gid_pc' = [gid_pc EXCEPT ![t] = "done"]
            /\ gid_path' = [gid_path EXCEPT ![t] = "fast"]
       ELSE /\ gid_pc' = [gid_pc EXCEPT ![t] = "l92"]
            /\ UNCHANGED <<gid_ret, gid_path>>
    /\ UNCHANGED <<flag_cache, gid_arg, gid_flags, stVars, exVars,
                   libVars>>

\* line 92: if raw_gid in flag_cache
GidMember(t) ==
    /\ gid_pc[t] = "l92"
    /\ IF gid_arg[t] \in DOMAIN flag_cache
       THEN /\ gid_pc' = [gid_pc EXCEPT ![t] = "l93"]
            /\ gid_path' = [gid_path EXCEPT ![t] = "hit"]
       ELSE /\ gid_pc' = [gid_pc EXCEPT ![t] = "l96"]
            /\ gid_path' = [gid_path EXCEPT ![t] = "miss"]
    /\ UNCHANGED <<flag_cache, gid_arg, gid_flags, gid_ret, stVars, exVars,
                   libVars>>

\* line 93: return raw_gid & ~GID_MASK, flag_cache[raw_gid]
GidCacheRead(t) ==
    /\ gid_pc[t] = "l93"
    /\ IF gid_arg[t] \in DOMAIN flag_cache
       THEN /\ gid_ret' = [gid_ret EXCEPT
                    ![t] = GidResult(And32(gid_arg[t], Not32(GID_MASK)),
                                     flag_cache[gid_arg[t]])]
            /\ gid_pc' = [gid_pc EXCEPT ![t] = "done"]
       ELSE /\ gid_pc' = [gid_pc EXCEPT ![t] = "KeyError"]
            /\ UNCHANGED gid_ret
    /\ UNCHANGED <<flag_cache, gid_arg, gid_flags, gid_path, stVars, exVars,
                   libVars>>

\* lines 96-100: flags = TileFlags(...)
GidCompute(t) ==
    /\ gid_pc[t] = "l96"
    /\ gid_flags' = [gid_flags EXCEPT ![t] = ComputeFlags(gid_arg[t])]
    /\ gid_pc' = [gid_pc EXCEPT ![t] = "l101"]
    /\ UNCHANGED <<flag_cache, gid_arg, gid_ret, gid_path, stVars, exVars,
                   libVars>>

\* a mutant of GidCacheWrite: the write replaces the cache by the new entry
GidCacheWriteEvicting(t) ==
    /\ gid_pc[t] = "l101"
    /\ flag_cache' = CachePut(EmptyCache, gid_arg[t], gid_flags[t])
    /\ gid_pc' = [gid_pc EXCEPT ![t] = "l102"]
    /\ UNCHANGED <<gid_arg, gid_flags, gid_ret, gid_path, stVars, exVars,
                   libVars>>

\* line 101: flag_cache[raw_gid] = flags
GidCacheWrite(t) ==
    /\ gid_pc[t] = "l101"
    /\ flag_cache' = CachePut(flag_cache, gid_arg[t], gid_flags[t])
    /\ gid_pc' = [gid_pc EXCEPT ![t] = "l102"]
    /\ UNCHANGED <<gid_arg, gid_flags, gid_ret, gid_path, stVars, exVars,
                   libVars>>

\* line 102: return raw_gid & ~GID_MASK, flags
GidReturn(t) ==
    /\ gid_pc[t] = "l102"
    /\ gid_ret' = [gid_ret EXCEPT
            ![t] = GidResult(And32(gid_arg[t], Not32(GID_MASK)), gid_flags[t])]
    /\ gid_pc' = [gid_pc EXCEPT ![t] = "done"]
    /\ UNCHANGED <<flag_cache, gid_arg, gid_flags, gid_path, stVars, exVars,
                   libVars>>

\* the caller takes the result; the thread may call again
GidDone(t) ==
    /\ gid_pc[t] = "done"
    /\ gid_pc' = [gid_pc EXCEPT ![t] = "idle"]
    /\ gid_arg' = [gid_arg EXCEPT ![t] = Gid(0, 0)]
    /\ gid_flags' = [gid_flags EXCEPT ![t] = empty_flags]
    /\ gid_ret' = [gid_ret EXCEPT ![t] = NoResult]
    /\ gid_path' = [gid_path EXCEPT ![t] = "none"]
    /\ UNCHANGED <<flag_cache, stVars, exVars,
                   libVars>>

NextGidThreads ==
    \E t \in Threads :
        \/ \E raw_gid \in ThreadInputs : GidCall(t, raw_gid)
        \/ GidFastPath(t)
        \/ GidMember(t)
        \/ GidCacheRead(t)
        \/ GidCompute(t)
        \/ GidCacheWrite(t)
        \/ GidReturn(t)
        \/ GidDone(t)
SpecGidThreads == InitGid /\ [][NextGidThreads]_vars

(***************************************************************************)
(* Reference values of the claims on decode_gid, by integer arithmetic on  *)
(* the two words rather than by masks                                      *)
(***************************************************************************)
TopBitsCleared(raw) == Gid(raw.hi % 2^13, raw.lo)
BitTests(raw) ==
    TileFlags(raw.hi \div 2^15 = 1,
              (raw.hi \div 2^14) % 2 = 1,
              (raw.hi \div 2^13) % 2 = 1)
Below2p29(raw) == raw.hi < 2^13

\* C1: a sequential decode_gid(raw) returns base = raw with the top three
\* bits cleared and flags = (bit 31, bit 30, bit 29), whatever earlier
\* calls left in the flag cache; for raw < 2^29 it returns (raw, no flags).
C1_DecodeMatchesBitTests ==
    gid_pc[1] = "done" =>
        /\ gid_ret[1].base = TopBitsCleared(gid_arg[1])
        /\ gid_ret[1].flags = BitTests(gid_arg[1])
        /\ Below2p29(gid_arg[1]) =>
               gid_ret[1] = GidResult(gid_arg[1], empty_flags)

\* C1 witness: a call on a flagged GID answered from a cache that earlier
\* calls filled with other keys as well.
C1_Witness ==
    /\ gid_pc[1] = "done"
    /\ gid_path[1] = "hit"
    /\ gid_arg[1] = Gid(2^15 + 2^13, 7)
    /\ Cardinality(DOMAIN flag_cache) >= 3

\* C2 (state part): every cache key is >= 2^29 and maps to the flags of its
\* own bit tests, no cache read fails, and every finished concurrent call
\* returned what a sequential call on a fresh cache returns.
C2_CacheAndResultsSound ==
    /\ \A k \in DOMAIN flag_cache :
           ~Below2p29(k) /\ flag_cache[k] = BitTests(k)
    /\ \A t \in Threads :
           /\ gid_pc[t] # "KeyError"
           /\ gid_pc[t] = "done" =>
                  gid_ret[t] = decode_gid(gid_arg[t], EmptyCache).ret

\* C2 (step part): a step never removes a cache entry nor changes its value.
C2_CacheAppendOnly ==
    \A k \in DOMAIN flag_cache :
        k \in DOMAIN flag_cache' /\ flag_cache'[k] = flag_cache[k]

\* C2: concurrent unlocked decode_gid calls, interleaved statement by
\* statement, return the sequential results, and the flag cache only gains
\* entries, each key >= 2^29 mapped to its own flags.
C2_ConcurrentDecodeSafe ==
    [](C2_CacheAndResultsSound) /\ [][C2_CacheAppendOnly]_vars

\* C2 witness: two threads raced on the same uncached key, both took the
\* miss branch, and one of them finds the other's entry when it writes.
C2_Witness ==
    /\ gid_pc[1] = "l101"
    /\ gid_pc[2] = "done"
    /\ gid_arg[1] = gid_arg[2]
    /\ gid_path[1] = "miss"
    /\ gid_path[2] = "miss"
    /\ gid_arg[1] \in DOMAIN flag_cache

(***************************************************************************)
(* Chunks                                                                  *)
(***************************************************************************)
\* the Chunk dataclass: position (x, y), size (width, height), grid, raw
Chunk(position, size, grid, raw) ==
    [position |-> position, size |-> size, grid |-> grid, raw |-> raw]

Min(a, b) == IF a < b THEN a ELSE b
Max(a, b) == IF a > b THEN a ELSE b

\* Python's seq[a:b]: negative bounds count from the end, both are clamped
PySlice(seq, a, b) ==
    LET n == Len(seq)
        lo == IF a < 0 THEN Max(n + a, 0) ELSE Min(a, n)
        hi == IF b < 0 THEN Max(n + b, 0) ELSE Min(b, n)
    IN  IF lo >= hi THEN <<>> ELSE SubSeq(seq, lo + 1, hi)

\* a mutant of ExtractGrid: every GID is kept, in as many rows as it takes
ExtractGridKeepingAll(gids, width, height) ==
    [row \in 1..Max(height, (Len(gids) + Max(width, 1) - 1) \div Max(width, 1))
        |-> PySlice(gids, (row - 1) * width, row * width)]

\* extract_chunks line 93:
\*   grid = [gids[row * width : (row + 1) * width] for row in range(height)]
ExtractGrid(gids, width, height) ==
    [row \in 1..height |-> PySlice(gids, (row - 1) * width, row * width)]

\* parent.register_gid_check_flags as the host is described and as the tests
\* stand in for it: the flag bits are stripped
register_gid_check_flags(raw_gid) == And32(raw_gid, Not32(GID_MASK))

(***************************************************************************)
(* stitch_chunks, loop iteration by loop iteration                         *)
(***************************************************************************)
FullWidth == 3
FullHeight == 2
MaxChunks == 2

G(n) == Gid(0, n)
FlipX(n) == Gid(2^15, n)
FlipY(n) == Gid(2^14, n)

\* (size, grid) pairs of the chunks handed to stitch_chunks
ChunkShapes ==
    { \* complete grids, with flagged tiles
      [size |-> <<2, 2>>, grid |-> << <<G(1), G(2)>>, <<G(3), FlipX(4)>> >>],
      [size |-> <<2, 1>>, grid |-> << <<G(5), FlipY(7)>> >>],
      \* a complete grid holding the empty tile
      [size |-> <<1, 1>>, grid |-> << <<G(0)>> >>],
      \* a first row shorter than the declared width
      [size |-> <<2, 2>>, grid |-> << <<G(1)>>, <<G(2), G(3)>> >>],
      \* what extract_chunks builds from 3 GIDs for a declared 2x2 chunk
      [size |-> <<2, 2>>, grid |-> ExtractGrid(<<G(1), G(2), G(3)>>, 2, 2)],
      \* fewer rows than the declared height
      [size |-> <<2, 2>>, grid |-> << <<G(1), G(2)>> >>],
      \* declared width 0 and no rows
      [size |-> <<0, 2>>, grid |-> <<>>],
      \* a short row below the declared height
      [size |-> <<2, 1>>, grid |-> << <<G(1), G(2)>>, <<G(3)>> >>],
      \* what extract_chunks builds for a negative declared width and height
      \* (no row) and for a negative declared width (slices from the end)
      [size |-> <<-1, -1>>, grid |-> ExtractGrid(<<>>, -1, -1)],
      [size |-> <<-1, 2>>,
       grid |-> ExtractGrid(<<G(1), G(2), G(3)>>, -1, 2)] }

ChunkPositions == { <<0, 0>>, <<1, 0>>, <<2, 1>>, <<-1, 0>>, <<0, -1>> }

ChunkPool ==
    { Chunk(p, s.size, s.grid, <<>>) : p \in ChunkPositions, s \in ChunkShapes }

ChunkLists == UNION { [1..n -> ChunkPool] : n \in 0..MaxChunks }

\* line 124: if cx < 0 or cy < 0
IsNegativeXOnly(chunk) == chunk.position[1] < 0
IsNegative(chunk) == chunk.position[1] < 0 \/ chunk.position[2] < 0

\* line 133: raw_gid = chunk.grid[y][x]   (IndexError when out of range)
ReadCellPadded(grid, y, x) ==
    IF y < Len(grid) /\ x < Len(grid[y + 1])
    THEN [ok |-> TRUE, gid |-> grid[y + 1][x + 1]]
    ELSE [ok |-> TRUE, gid |-> Gid(0, 0)]
ReadCell(grid, y, x) ==
    IF y < Len(grid) /\ x < Len(grid[y + 1])
    THEN [ok |-> TRUE, gid |-> grid[y + 1][x + 1]]
    ELSE [ok |-> FALSE, gid |-> Gid(0, 0)]

\* line 136: gx, gy = cx + x, cy + y
CellTargetTransposed(cx, cy, x, y) == <<cx + y, cy + x>>
CellTarget(cx, cy, x, y) == <<cx + x, cy + y>>

\* line 137: if 0 <= gx < width and 0 <= gy < height
InBounds(gx, gy, width, height) ==
    0 <= gx /\ gx < width /\ 0 <= gy /\ gy < height

\* line 138: full_grid[gy][gx] = normalized_gid
WrittenValueKeepNonEmpty(old, raw_gid, normalized_gid) ==
    IF normalized_gid = Gid(0, 0) THEN old ELSE normalized_gid
WrittenValue(old, raw_gid, normalized_gid) == normalized_gid

\* line 139: elif not out_of_bounds_logged
ShouldLogOutOfBoundsAlways(logged) == TRUE
ShouldLogOutOfBounds(logged) == ~logged

\* line 134: the call of the host, recorded with what it returned
RegisterOnlyNonEmpty(calls, raw_gid) ==
    IF raw_gid = Gid(0, 0) THEN calls
    ELSE Append(calls, [raw |-> raw_gid,
                        ret |-> register_gid_check_flags(raw_gid)])
Register(calls, raw_gid) ==
    Append(calls, [raw |-> raw_gid, ret |-> register_gid_check_flags(raw_gid)])

LogRecord(kind, index, at) == [kind |-> kind, chunk |-> index, at |-> at]

StitchInit ==
    /\ st_chunks \in ChunkLists
    /\ st_width = FullWidth
    /\ st_height = FullHeight
    /\ full_grid = <<>>
    /\ chunk_index = 0
    /\ st_y = 0
    /\ st_x = 0
    /\ out_of_bounds_logged = FALSE
    /\ st_pc = "init"
    /\ st_log = <<>>
    /\ reg_calls = <<>>

\* line 120: full_grid = [[0 for _ in range(width)] for _ in range(height)]
StitchAllocate ==
    /\ st_pc = "init"
    /\ full_grid' = [gy \in 1..st_height |-> [gx \in 1..st_width |-> Gid(0, 0)]]
    /\ chunk_index' = 1
    /\ st_pc' = "chunk"
    /\ UNCHANGED <<st_chunks, st_width, st_height, st_y, st_x,
                   out_of_bounds_logged, st_log, reg_calls, gidVars, exVars,
                   libVars>>

\* lines 122-126: the next chunk is at a negative position and is skipped
StitchSkipNegative ==
    /\ st_pc = "chunk"
    /\ chunk_index <= Len(st_chunks)
    /\ IsNegative(st_chunks[chunk_index])
    /\ st_log' = Append(st_log, LogRecord("negative", chunk_index,
                                          st_chunks[chunk_index].position))
    /\ chunk_index' = chunk_index + 1
    /\ UNCHANGED <<st_chunks, st_width, st_height, full_grid, st_y, st_x,
                   out_of_bounds_logged, st_pc, reg_calls, gidVars, exVars,
                   libVars>>

\* lines 122-132: the next chunk is entered; a chunk with no cell to visit
\* (range(ch) or range(cw) empty) is left at once
StitchEnterChunk ==
    /\ st_pc = "chunk"
    /\ chunk_index <= Len(st_chunks)
    /\ ~IsNegative(st_chunks[chunk_index])
    /\ out_of_bounds_logged' = FALSE
    /\ st_y' = 0
    /\ st_x' = 0
    /\ IF st_chunks[chunk_index].size[1] > 0 /\ st_chunks[chunk_index].size[2] > 0
       THEN st_pc' = "cell" /\ UNCHANGED chunk_index
       ELSE st_pc' = "chunk" /\ chunk_index' = chunk_index + 1
    /\ UNCHANGED <<st_chunks, st_width, st_height, full_grid, st_log,
                   reg_calls, gidVars, exVars,
                   libVars>>

\* lines 131-143: one iteration of the inner loop, at local cell (x, y)
StitchCell ==
    /\ st_pc = "cell"
    /\ LET chunk == st_chunks[chunk_index]
           cx == chunk.position[1]
           cy == chunk.position[2]
           cw == chunk.size[1]
           ch == chunk.size[2]
           cell == ReadCell(chunk.grid, st_y, st_x)
           raw_gid == cell.gid
           normalized_gid == register_gid_check_flags(raw_gid)
           g == CellTarget(cx, cy, st_x, st_y)
           gx == g[1]
           gy == g[2]
       IN  IF ~cell.ok
           THEN /\ st_pc' = "IndexError"
                /\ UNCHANGED <<full_grid, chunk_index, st_y, st_x,
                               out_of_bounds_logged, st_log, reg_calls>>
           ELSE /\ reg_calls' = Register(reg_calls, raw_gid)
                /\ IF InBounds(gx, gy, st_width, st_height)
                   THEN /\ full_grid' =
                              [full_grid EXCEPT ![gy + 1][gx + 1] =
                                  WrittenValue(@, raw_gid, normalized_gid)]
                        /\ UNCHANGED <<st_log, out_of_bounds_logged>>
                   ELSE IF ShouldLogOutOfBounds(out_of_bounds_logged)
                   THEN /\ st_log' = Append(st_log,
                                LogRecord("out-of-bounds", chunk_index, <<gx, gy>>))
                        /\ out_of_bounds_logged' = TRUE
                        /\ UNCHANGED full_grid
                   ELSE UNCHANGED <<full_grid, st_log, out_of_bounds_logged>>
                /\ IF st_x + 1 < cw
                   THEN /\ st_x' = st_x + 1
                        /\ UNCHANGED <<st_y, chunk_index, st_pc>>
                   ELSE IF st_y + 1 < ch
                   THEN /\ st_x' = 0
                        /\ st_y' = st_y + 1
                        /\ UNCHANGED <<chunk_index, st_pc>>
                   ELSE /\ chunk_index' = chunk_index + 1
                        /\ st_pc' = "chunk"
                        /\ UNCHANGED <<st_x, st_y>>
    /\ UNCHANGED <<st_chunks, st_width, st_height, gidVars, exVars,
                   libVars>>

\* lines 145-146: return full_grid
StitchReturn ==
    /\ st_pc = "chunk"
    /\ chunk_index > Len(st_chunks)
    /\ st_pc' = "done"
    /\ UNCHANGED <<st_chunks, st_width, st_height, full_grid, chunk_index,
                   st_y, st_x, out_of_bounds_logged, st_log, reg_calls,
                   gidVars, exVars,
                   libVars>>

InitStitch == GidIdle /\ StitchInit /\ ExtractIdle /\ LibIdle
NextStitch ==
    \/ StitchAllocate
    \/ StitchSkipNegative
    \/ StitchEnterChunk
    \/ StitchCell
    \/ StitchReturn
SpecStitch == InitStitch /\ [][NextStitch]_vars

(***************************************************************************)
(* Text: a str is a sequence of one-character strings                      *)
(***************************************************************************)
\* the characters of str.isspace(): the blank, \t, \n, \r, \f, the vertical
\* tab U+000B, the separators U+001C to U+001F, the next line U+0085 and the
\* no-break space U+00A0.  (A str of the model holds characters up to
\* U+00FF; Python knows further blanks and decimal digits above.)
Whitespace ==
    {" ", "\t", "\n", "\r", "\f", "",
     "", "", "", "", "", " "}

\* s without the characters of `blanks` at its ends
Trim(s, blanks) ==
    LET keep == { i \in DOMAIN s : s[i] \notin blanks } IN
    IF keep = {} THEN <<>>
    ELSE SubSeq(s, CHOOSE i \in keep : \A j \in keep : i <= j,
                   CHOOSE i \in keep : \A j \in keep : j <= i)
\* str.strip()
Strip(s) == Trim(s, Whitespace)
\* the blanks that int() and float() skip around a number: those of
\* str.isspace() but the separators U+001C to U+001F
NumberBlanks == Whitespace \ {"", "", "", ""}

RECURSIVE Split(_, _)
\* str.split(sep) for a one-character separator
Split(s, sep) ==
    IF \A i \in DOMAIN s : s[i] # sep THEN <<s>>
    ELSE LET k == CHOOSE i \in DOMAIN s :
                     s[i] = sep /\ \A j \in 1..(i - 1) : s[j] # sep
         IN  <<SubSeq(s, 1, k - 1)>> \o Split(SubSeq(s, k + 1, Len(s)), sep)

Digits == <<"0", "1", "2", "3", "4", "5", "6", "7", "8", "9">>
IsDigit(c) == \E d \in DOMAIN Digits : Digits[d] = c
DigitValue(c) == (CHOOSE d \in DOMAIN Digits : Digits[d] = c) - 1

\* A Python int as two words: value = hi * 2^16 + lo with 0 <= lo < 2^16
\* (hi is negative for a negative value).
RECURSIVE Magnitude(_, _)
\* the value of a run of digits and underscores, appended to `acc`
Magnitude(body, acc) ==
    IF body = <<>> THEN acc
    ELSE IF Head(body) = "_" THEN Magnitude(Tail(body), acc)
    ELSE LET low == acc.lo * 10 + DigitValue(Head(body)) IN
         Magnitude(Tail(body), Gid(acc.hi * 10 + low \div W16, low % W16))

Negate(v) == IF v.lo = 0 THEN Gid(-v.hi, 0) ELSE Gid(-v.hi - 1, W16 - v.lo)

ParseFailed == [ok |-> FALSE, val |-> Gid(0, 0)]

\* int(s) for a str: surrounding blanks, an optional sign, then digits
\* with single underscores between them; anything else is a ValueError
ParseInt(s) ==
    LET t == Trim(s, NumberBlanks)
        signed == t # <<>> /\ Head(t) \in {"+", "-"}
        body == IF signed THEN Tail(t) ELSE t
        wellFormed ==
            /\ body # <<>>
            /\ IsDigit(body[1])
            /\ IsDigit(body[Len(body)])
            /\ \A i \in DOMAIN body : IsDigit(body[i]) \/ body[i] = "_"
            /\ \A i \in 1..(Len(body) - 1) : ~(body[i] = "_" /\ body[i + 1] = "_")
    IN  IF ~wellFormed THEN ParseFailed
        ELSE [ok |-> TRUE,
              val |-> IF signed /\ Head(t) = "-"
                      THEN Negate(Magnitude(body, Gid(0, 0)))
                      ELSE Magnitude(body, Gid(0, 0))]

\* a parsed int that fits the model's integers
ToInt(v) == v.hi * W16 + v.lo

(***************************************************************************)
(* base64.b64decode (binascii.a2b_base64, not strict)                      *)
(***************************************************************************)
B64Alphabet ==
    << "A", "B", "C", "D", "E", "F", "G", "H", "I", "J", "K", "L", "M",
       "N", "O", "P", "Q", "R", "S", "T", "U", "V", "W", "X", "Y", "Z",
       "a", "b", "c", "d", "e", "f", "g", "h", "i", "j", "k", "l", "m",
       "n", "o", "p", "q", "r", "s", "t", "u", "v", "w", "x", "y", "z",
       "0", "1", "2", "3", "4", "5", "6", "7", "8", "9", "+", "/" >>
B64Pad == "="
\* table_a2b_base64: the 6-bit value of each character of the alphabet
B64Table ==
    [c \in { B64Alphabet[v] : v \in DOMAIN B64Alphabet } |->
        (CHOOSE v \in DOMAIN B64Alphabet : B64Alphabet[v] = c) - 1]
IsB64(c) == c \in DOMAIN B64Table
B64Value(c) == B64Table[c]

DecodeFailed == [ok |-> FALSE, bytes |-> <<>>]

RECURSIVE A2bBase64(_, _, _, _, _, _)
\* the scan of a2b_base64 from character i on: quad_pos is the position in
\* the current group of four, leftchar the bits not yet written, pads the
\* padding characters seen since the last data character
A2bBase64(s, i, quad_pos, leftchar, pads, out) ==
    IF i > Len(s)
    THEN IF quad_pos # 0 THEN DecodeFailed ELSE [ok |-> TRUE, bytes |-> out]
    ELSE IF s[i] = B64Pad
    THEN IF quad_pos >= 2 /\ quad_pos + pads + 1 >= 4
         THEN [ok |-> TRUE, bytes |-> out]
         ELSE A2bBase64(s, i + 1, quad_pos, leftchar,
                        IF quad_pos >= 2 THEN pads + 1 ELSE pads, out)
    ELSE IF ~IsB64(s[i])
    THEN A2bBase64(s, i + 1, quad_pos, leftchar, pads, out)
    ELSE LET v == B64Value(s[i]) IN
         CASE quad_pos = 0 -> A2bBase64(s, i + 1, 1, v, 0, out)
           [] quad_pos = 1 ->
                A2bBase64(s, i + 1, 2, v % 16, 0,
                          Append(out, leftchar * 4 + v \div 16))
           [] quad_pos = 2 ->
                A2bBase64(s, i + 1, 3, v % 4, 0,
                          Append(out, leftchar * 16 + v \div 4))
           [] OTHER ->
                A2bBase64(s, i + 1, 0, 0, 0, Append(out, leftchar * 64 + v))

\* the characters U+0080 to U+00FF
NonAscii ==
    {
      "", "", "", "", "", "", "", "", "", "", "", "", "", "", "", "",
      "", "", "", "", "", "", "", "", "", "", "", "", "", "", "", "",
      " ", "¡", "¢", "£", "¤", "¥", "¦", "§", "¨", "©", "ª", "«", "¬", "­", "®", "¯",
      "°", "±", "²", "³", "´", "µ", "¶", "·", "¸", "¹", "º", "»", "¼", "½", "¾", "¿",
      "À", "Á", "Â", "Ã", "Ä", "Å", "Æ", "Ç", "È", "É", "Ê", "Ë", "Ì", "Í", "Î", "Ï",
      "Ð", "Ñ", "Ò", "Ó", "Ô", "Õ", "Ö", "×", "Ø", "Ù", "Ú", "Û", "Ü", "Ý", "Þ", "ß",
      "à", "á", "â", "ã", "ä", "å", "æ", "ç", "è", "é", "ê", "ë", "ì", "í", "î", "ï",
      "ð", "ñ", "ò", "ó", "ô", "õ", "ö", "÷", "ø", "ù", "ú", "û", "ü", "ý", "þ", "ÿ" }

\* base64.b64decode(s) for a str: s.encode("ascii") first, a ValueError for
\* a character that is not ASCII, then the scan
b64decode(s) ==
    IF \E i \in DOMAIN s : s[i] \in NonAscii THEN DecodeFailed
    ELSE A2bBase64(s, 1, 0, 0, 0, <<>>)

(***************************************************************************)
(* zlib / gzip / zstd: the libraries, as the table of the streams the      *)
(* inputs hold (any other byte string of the inputs is not a valid stream) *)
(***************************************************************************)
ZlibStreams ==
    <<120, 156, 99, 100, 96, 96, 96, 2, 98, 102, 32, 102, 97, 96, 104, 0, 0, 0, 224, 0, 139>>
        :> <<1, 0, 0, 0, 2, 0, 0, 0, 3, 0, 0, 0, 4, 0, 0, 128>> @@
    <<120, 156, 99, 101, 96, 96, 0, 0, 0, 24, 0, 6>>
        :> <<5, 0, 0, 0>> @@
    <<120, 156, 99, 100, 96, 96, 96, 2, 98, 0, 0, 24, 0, 4>>
        :> <<1, 0, 0, 0, 2, 0, 0, 0>> @@
    <<120, 156, 99, 103, 96, 0, 0, 0, 24, 0, 8>>
        :> <<7, 0, 0>> @@
    <<120, 156, 99, 100, 96, 96, 96, 2, 98, 102, 32, 102, 1, 98, 0, 0, 96, 0, 11>>
        :> <<1, 0, 0, 0, 2, 0, 0, 0, 3, 0, 0, 0, 4, 0, 0, 0>>

\* gzip.decompress(b"") is b"": no member at all is a valid gzip file
GzipStreams ==
    <<>> :> <<>> @@
    <<31, 139, 8, 0, 0, 0, 0, 0, 2, 3, 99, 101, 96, 96, 0, 0, 46, 47, 154, 22, 4, 0, 0, 0>>
        :> <<5, 0, 0, 0>>

ZstdStreams == [data \in {} |-> <<>>]

Decompress(streams, data) ==
    IF data \in DOMAIN streams
    THEN [ok |-> TRUE, bytes |-> streams[data]]
    ELSE DecodeFailed

(***************************************************************************)
(* struct.unpack("<%dL" % (len(data) // 4), data)                          *)
(***************************************************************************)
\* a mutant of UnpackLE: trailing bytes beyond a multiple of 4 are dropped
UnpackLETruncating(data) ==
    [ok |-> TRUE,
     gids |-> [k \in 1..(Len(data) \div 4) |->
                 Gid(data[4 * k - 1] + 256 * data[4 * k],
                     data[4 * k - 3] + 256 * data[4 * k - 2])]]

UnpackLE(data) ==
    IF Len(data) # 4 * (Len(data) \div 4)
    THEN [ok |-> FALSE, gids |-> <<>>]
    ELSE [ok |-> TRUE,
          gids |-> [k \in 1..(Len(data) \div 4) |->
                      Gid(data[4 * k - 1] + 256 * data[4 * k],
                          data[4 * k - 3] + 256 * data[4 * k - 2])]]

(***************************************************************************)
(* decode_chunk_data                                                       *)
(***************************************************************************)
\* a mutant of Falsy: only None counts as unset
FalsyNoneOnly(opt) == opt = "None"

\* None or "" (a falsy Optional[str])
Falsy(opt) == opt \in {"None", ""}

ChunkDataFailed == [ok |-> FALSE, gids |-> <<>>, raw |-> <<>>]

\* lines 196-206: the compression branch on the base64-decoded bytes
DecompressChunk(data, compression, zstd) ==
    CASE compression = "zlib" -> Decompress(ZlibStreams, data)
      [] compression = "gzip" -> Decompress(GzipStreams, data)
      [] compression = "zstd" ->
            IF zstd THEN Decompress(ZstdStreams, data) ELSE DecodeFailed
      [] OTHER ->
            IF ~Falsy(compression) THEN DecodeFailed
            ELSE [ok |-> TRUE, bytes |-> data]

\* line 212: gids = [int(i) for i in text.strip().split(",")]
CsvInts(text) ==
    LET parts == Split(Strip(text), ",")
        parsed == [k \in DOMAIN parts |-> ParseInt(parts[k])]
    IN  IF \E k \in DOMAIN parsed : ~parsed[k].ok
        THEN [ok |-> FALSE, gids |-> <<>>]
        ELSE [ok |-> TRUE, gids |-> [k \in DOMAIN parsed |-> parsed[k].val]]

decode_chunk_data(text, encoding, compression, zstd) ==
    IF encoding = "base64"
    THEN LET decoded == b64decode(Strip(text)) IN
         IF ~decoded.ok THEN ChunkDataFailed
         ELSE LET raw_data == DecompressChunk(decoded.bytes, compression, zstd) IN
              IF ~raw_data.ok THEN ChunkDataFailed
              ELSE LET unpacked == UnpackLE(raw_data.bytes) IN
                   IF ~unpacked.ok THEN ChunkDataFailed
                   ELSE [ok |-> TRUE, gids |-> unpacked.gids,
                         raw |-> raw_data.bytes]
    ELSE IF encoding = "csv"
    THEN LET ints == CsvInts(text) IN
         IF ~ints.ok THEN ChunkDataFailed
         ELSE [ok |-> TRUE, gids |-> ints.gids, raw |-> <<>>]
    ELSE IF ~Falsy(encoding) THEN ChunkDataFailed
    ELSE [ok |-> TRUE, gids |-> <<>>, raw |-> <<>>]

(***************************************************************************)
(* extract_chunks, node by node                                            *)
(***************************************************************************)
MaxNodes == 2

\* an ElementTree <chunk> element: its attributes and its text (or None)
Element(attrib, text) == [attrib |-> attrib, text |-> text]
Text(chars) == [present |-> TRUE, chars |-> chars]
TextNone == [present |-> FALSE, chars |-> <<>>]
Attrib(x, y, width, height) ==
    [k \in {"x", "y", "width", "height"} |->
        CASE k = "x" -> x [] k = "y" -> y [] k = "width" -> width
          [] OTHER -> height]
Without(attrib, keys) == [k \in DOMAIN attrib \ keys |-> attrib[k]]

\* base64 of zlib of the GIDs 1, 2, 3, 4 (test_chunk.py setUp)
TextZlib1234 ==
    <<"e", "J", "x", "j", "Z", "G", "B", "g", "Y", "A", "J", "i", "Z", "i",
      "B", "m", "A", "W", "I", "A", "A", "G", "A", "A", "C", "w", "=", "=">>

\* base64 of the GIDs 1, 2, 3, 4 | 0x80000000, not compressed
TextRawFlagged ==
    <<"A", "Q", "A", "A", "A", "A", "I", "A", "A", "A", "A", "D", "A", "A",
      "A", "A", "B", "A", "A", "A", "g", "A", "=", "=">>

\* base64 of zlib of the GIDs 1, 2 (test_byte_mismatch_warning)
TextZlib12 ==
    <<"e", "J", "x", "j", "Z", "G", "B", "g", "Y", "A", "J", "i", "A", "A",
      "A", "Y", "A", "A", "Q", "=">>

\* base64 of gzip of the GID 5
TextGzip5 ==
    <<"H", "4", "s", "I", "A", "A", "A", "A", "A", "A", "A", "C", "A", "2",
      "N", "l", "Y", "G", "A", "A", "A", "C", "4", "v", "m", "h", "Y", "E",
      "A", "A", "A", "A">>

\* test_malformed_base64
TextNotBase64 ==
    <<"!", "!", "!", "n", "o", "t", "b", "a", "s", "e", "6", "4", "!", "!",
      "!">>

\* CSV of the GIDs 1, 2, 3, 4 | 0x80000000
TextCsvFlagged ==
    <<"1", ",", "2", ",", "\n", "3", ",", "2", "1", "4", "7", "4", "8",
      "3", "6", "5", "2">>

\* CSV of the GIDs 1, 2, 3
TextCsv123 ==
    <<"1", ",", "2", ",", "3">>

\* the <chunk> nodes handed to extract_chunks
ExtractNodePool ==
    { Element(Attrib(<<"0">>, <<"0">>, <<"2">>, <<"2">>), Text(TextZlib1234)),
      Element(Attrib(<<"2">>, <<"0">>, <<"2">>, <<"2">>), Text(TextRawFlagged)),
      \* test_invalid_attributes
      Element(Attrib(<<"n", "o", "t", "-", "a", "n", "-", "i", "n", "t">>,
                     <<"0">>, <<"2">>, <<"2">>), Text(TextZlib1234)),
      \* no x attribute
      Element(Without(Attrib(<<>>, <<"1">>, <<"2">>, <<"2">>), {"x"}),
              Text(TextCsvFlagged)),
      \* no text
      Element(Attrib(<<"0">>, <<"0">>, <<"2">>, <<"2">>), TextNone),
      Element(Attrib(<<"0">>, <<"0">>, <<"2">>, <<"2">>), Text(TextNotBase64)),
      \* signed and padded numbers, fewer GIDs than width * height
      Element(Attrib(<<"-", "1">>, <<" ", "1", " ">>, <<"2">>, <<"2">>),
              Text(TextZlib12)),
      \* a height that is no integer literal
      Element(Attrib(<<"0">>, <<"0">>, <<"2">>, <<"2", ".", "0">>),
              Text(TextCsv123)),
      \* an empty width, no height attribute, empty text
      Element(Without(Attrib(<<"0">>, <<"0">>, <<>>, <<>>), {"height"}),
              Text(<<>>)),
      Element(Attrib(<<"1">>, <<"1">>, <<"1">>, <<"1">>), Text(TextGzip5)),
      \* more GIDs than width * height
      Element(Attrib(<<"0">>, <<"1">>, <<"1">>, <<"2">>), Text(TextZlib1234)),
      \* a negative width, a negative height, both negative with blank text
      Element(Attrib(<<"0">>, <<"0">>, <<"-", "1">>, <<"2">>),
              Text(TextCsv123)),
      Element(Attrib(<<"0">>, <<"0">>, <<"2">>, <<"-", "1">>),
              Text(TextZlib12)),
      Element(Attrib(<<"0">>, <<"0">>, <<"-", "1">>, <<"-", "1">>),
              Text(<<" ">>)) }

ExtractNodeLists == UNION { [1..n -> ExtractNodePool] : n \in 0..MaxNodes }

\* (encoding, compression) of a call; "None" stands for None
ExtractConfigs ==
    { <<"base64", "zlib">>, <<"base64", "None">>, <<"base64", "gzip">>,
      <<"base64", "zstd">>, <<"base64", "lzma">>, <<"csv", "None">>,
      <<"None", "None">>, <<"json", "None">> }

\* lines 67-70: int(chunk.get(key) or 0)
AttributeAsPresent(node, key) ==
    IF key \notin DOMAIN node.attrib THEN ParseFailed
    ELSE ParseInt(node.attrib[key])
Attribute(node, key) ==
    IF key \notin DOMAIN node.attrib \/ node.attrib[key] = <<>>
    THEN [ok |-> TRUE, val |-> Gid(0, 0)]
    ELSE ParseInt(node.attrib[key])

AttributesOk(node) ==
    \A key \in {"x", "y", "width", "height"} : Attribute(node, key).ok

\* lines 79-83: decode_chunk_data(text=chunk.text.strip(), ...)
DecodeNode(node) ==
    decode_chunk_data(Strip(node.text.chars), ex_encoding, ex_compression,
                      zstd_module)

\* lines 93-99: the Chunk built from a decoded node
ChunkOf(node, decoded) ==
    LET x == ToInt(Attribute(node, "x").val)
        y == ToInt(Attribute(node, "y").val)
        width == ToInt(Attribute(node, "width").val)
        height == ToInt(Attribute(node, "height").val)
    IN  Chunk(<<x, y>>, <<width, height>>,
              ExtractGrid(decoded.gids, width, height), decoded.raw)

ExtractInit ==
    /\ ex_nodes \in ExtractNodeLists
    /\ \E c \in ExtractConfigs : ex_encoding = c[1] /\ ex_compression = c[2]
    /\ zstd_module \in BOOLEAN
    /\ ex_i = 1
    /\ ex_chunks = <<>>
    /\ ex_pc = "loop"
    /\ ex_log = <<>>

\* lines 67-70: int() raises ValueError, which leaves extract_chunks
ExtractBadAttribute ==
    /\ ex_pc = "loop"
    /\ ex_i <= Len(ex_nodes)
    /\ ~AttributesOk(ex_nodes[ex_i])
    /\ ex_pc' = "ValueError"
    /\ UNCHANGED <<ex_nodes, ex_encoding, ex_compression, zstd_module, ex_i,
                   ex_chunks, ex_log, gidVars, stVars,
                   libVars>>

\* lines 74-76: if chunk.text is None: logger.error(...); continue
ExtractMissingText ==
    /\ ex_pc = "loop"
    /\ ex_i <= Len(ex_nodes)
    /\ AttributesOk(ex_nodes[ex_i])
    /\ ~ex_nodes[ex_i].text.present
    /\ ex_log' = Append(ex_log, LogRecord("missing-text", ex_i, <<>>))
    /\ ex_i' = ex_i + 1
    /\ UNCHANGED <<ex_nodes, ex_encoding, ex_compression, zstd_module,
                   ex_chunks, ex_pc, gidVars, stVars,
                   libVars>>

\* a mutant of ExtractDecodeFailed: the failure ends the loop
ExtractDecodeFailedStops ==
    /\ ex_pc = "loop"
    /\ ex_i <= Len(ex_nodes)
    /\ AttributesOk(ex_nodes[ex_i])
    /\ ex_nodes[ex_i].text.present
    /\ ~DecodeNode(ex_nodes[ex_i]).ok
    /\ ex_log' = Append(ex_log, LogRecord("decode-failed", ex_i, <<>>))
    /\ ex_i' = Len(ex_nodes) + 1
    /\ UNCHANGED <<ex_nodes, ex_encoding, ex_compression, zstd_module,
                   ex_chunks, ex_pc, gidVars, stVars,
                   libVars>>

\* lines 78-86: except Exception: logger.error(...); continue
ExtractDecodeFailed ==
    /\ ex_pc = "loop"
    /\ ex_i <= Len(ex_nodes)
    /\ AttributesOk(ex_nodes[ex_i])
    /\ ex_nodes[ex_i].text.present
    /\ ~DecodeNode(ex_nodes[ex_i]).ok
    /\ ex_log' = Append(ex_log, LogRecord("decode-failed", ex_i, <<>>))
    /\ ex_i' = ex_i + 1
    /\ UNCHANGED <<ex_nodes, ex_encoding, ex_compression, zstd_module,
                   ex_chunks, ex_pc, gidVars, stVars,
                   libVars>>

\* lines 88-99: the mismatch warning, the grid, chunks.append(Chunk(...))
ExtractAppend ==
    /\ ex_pc = "loop"
    /\ ex_i <= Len(ex_nodes)
    /\ AttributesOk(ex_nodes[ex_i])
    /\ ex_nodes[ex_i].text.present
    /\ LET decoded == DecodeNode(ex_nodes[ex_i])
           chunk == ChunkOf(ex_nodes[ex_i], decoded)
           expected == chunk.size[1] * chunk.size[2]
       IN  /\ decoded.ok
           /\ ex_log' =
                IF Len(decoded.gids) # expected
                THEN Append(ex_log, LogRecord("gid-count-mismatch", ex_i,
                                              <<expected, Len(decoded.gids)>>))
                ELSE ex_log
           /\ ex_chunks' = Append(ex_chunks, chunk)
    /\ ex_i' = ex_i + 1
    /\ UNCHANGED <<ex_nodes, ex_encoding, ex_compression, zstd_module, ex_pc,
                   gidVars, stVars,
                   libVars>>

\* lines 101-102: return chunks
ExtractReturn ==
    /\ ex_pc = "loop"
    /\ ex_i > Len(ex_nodes)
    /\ ex_pc' = "done"
    /\ UNCHANGED <<ex_nodes, ex_encoding, ex_compression, zstd_module, ex_i,
                   ex_chunks, ex_log, gidVars, stVars,
                   libVars>>

InitExtract == GidIdle /\ StitchIdle /\ ExtractInit /\ LibIdle
NextExtract ==
    \/ ExtractBadAttribute
    \/ ExtractMissingText
    \/ ExtractDecodeFailed
    \/ ExtractAppend
    \/ ExtractReturn
SpecExtract == InitExtract /\ [][NextExtract]_vars

(***************************************************************************)
(* Vocabulary of the claims on stitch_chunks                               *)
(***************************************************************************)
Stitched == st_pc = "done"
ChunkIds == 1..Len(st_chunks)
GridCells == (0..(st_width - 1)) \X (0..(st_height - 1))
\* the cell of the returned grid at absolute (gx, gy)
CellAt(gx, gy) == full_grid[gy + 1][gx + 1]

NonNegative(c) == c.position[1] >= 0 /\ c.position[2] >= 0
\* the rectangle the chunk declares contains absolute (gx, gy)
Covers(c, gx, gy) ==
    /\ c.position[1] <= gx /\ gx < c.position[1] + c.size[1]
    /\ c.position[2] <= gy /\ gy < c.position[2] + c.size[2]
\* the raw GID the chunk holds for absolute (gx, gy)
RawAt(c, gx, gy) == c.grid[gy - c.position[2] + 1][gx - c.position[1] + 1]
\* declared height rows of declared width cells
Complete(c) ==
    /\ Len(c.grid) = c.size[2]
    /\ \A r \in DOMAIN c.grid : Len(c.grid[r]) = c.size[1]
\* some cell of the declared rectangle is absent from the grid
MissingCell(c) ==
    \E y \in 0..(c.size[2] - 1), x \in 0..(c.size[1] - 1) :
        y >= Len(c.grid) \/ x >= Len(c.grid[y + 1])
Disjoint(c, d) ==
    \/ c.size[1] <= 0 \/ c.size[2] <= 0 \/ d.size[1] <= 0 \/ d.size[2] <= 0
    \/ c.position[1] + c.size[1] <= d.position[1]
    \/ d.position[1] + d.size[1] <= c.position[1]
    \/ c.position[2] + c.size[2] <= d.position[2]
    \/ d.position[2] + d.size[2] <= c.position[2]
\* the applied (non-negative) chunks covering absolute (gx, gy)
Covering(gx, gy) ==
    { i \in ChunkIds : NonNegative(st_chunks[i]) /\ Covers(st_chunks[i], gx, gy) }
LastOf(S) == CHOOSE i \in S : \A j \in S : j <= i
HasFlags(raw) == raw.hi >= 2^13
OutOfBoundsCells(c) ==
    { p \in (0..(c.size[1] - 1)) \X (0..(c.size[2] - 1)) :
        c.position[1] + p[1] >= st_width \/ c.position[2] + p[2] >= st_height }
OutOfBoundsWarnings(i) ==
    { k \in DOMAIN st_log :
        st_log[k].kind = "out-of-bounds" /\ st_log[k].chunk = i }

\* C3: for non-negative, complete, non-overlapping chunks the returned grid
\* has `height` rows of `width` cells; a cell covered by a chunk holds what
\* register_gid_check_flags returned for the chunk's GID there, every other
\* cell is 0 (so all cells are 0 for the empty list).
C3_StitchPlacesEveryCell ==
    /\ (Stitched /\ st_chunks = <<>>) =>
          full_grid = [gy \in 1..st_height |-> [gx \in 1..st_width |-> Gid(0, 0)]]
    /\ ( /\ Stitched
         /\ \A i \in ChunkIds :
               NonNegative(st_chunks[i]) /\ Complete(st_chunks[i])
         /\ \A i, j \in ChunkIds :
               i # j => Disjoint(st_chunks[i], st_chunks[j]) )
       => /\ Len(full_grid) = st_height
          /\ \A r \in DOMAIN full_grid : Len(full_grid[r]) = st_width
          /\ \A p \in GridCells :
               LET cov == { i \in ChunkIds : Covers(st_chunks[i], p[1], p[2]) } IN
               IF cov = {}
               THEN CellAt(p[1], p[2]) = Gid(0, 0)
               ELSE \A i \in cov :
                      CellAt(p[1], p[2]) =
                        register_gid_check_flags(RawAt(st_chunks[i], p[1], p[2]))

\* C3 witness: two disjoint complete chunks were stitched, a flagged tile
\* landed in bounds with its flags stripped, and a cell stayed uncovered.
C3_Witness ==
    /\ Stitched
    /\ Len(st_chunks) = 2
    /\ \A i \in ChunkIds : NonNegative(st_chunks[i]) /\ Complete(st_chunks[i])
    /\ Disjoint(st_chunks[1], st_chunks[2])
    /\ \E p \in GridCells :
          /\ Covers(st_chunks[1], p[1], p[2])
          /\ HasFlags(RawAt(st_chunks[1], p[1], p[2]))
          /\ CellAt(p[1], p[2]) # Gid(0, 0)
    /\ \E p \in GridCells :
          /\ Covers(st_chunks[2], p[1], p[2])
          /\ CellAt(p[1], p[2]) # Gid(0, 0)
    /\ \E p \in GridCells : Covering(p[1], p[2]) = {}

\* C4: a cell covered by several applied chunks holds the normalized GID of
\* the one that comes last in the list, also when that GID is 0.
C4_LastChunkWins ==
    Stitched =>
        \A p \in GridCells :
            LET cov == Covering(p[1], p[2]) IN
            Cardinality(cov) >= 2 =>
                CellAt(p[1], p[2]) =
                  register_gid_check_flags(
                      RawAt(st_chunks[LastOf(cov)], p[1], p[2]))

\* C4 witness: a cell written with a non-empty tile by the first chunk was
\* overwritten with tile 0 by the second.
C4_Witness ==
    /\ Stitched
    /\ \E p \in GridCells :
          /\ Covering(p[1], p[2]) = {1, 2}
          /\ RawAt(st_chunks[1], p[1], p[2]) # Gid(0, 0)
          /\ RawAt(st_chunks[2], p[1], p[2]) = Gid(0, 0)
          /\ CellAt(p[1], p[2]) = Gid(0, 0)

\* C5 (step part): the step taken for a chunk with a negative x or y changes
\* neither the grid nor the host, and goes on with the next chunk.
C5_SkipStep ==
    ( /\ st_pc = "chunk"
      /\ chunk_index <= Len(st_chunks)
      /\ ~NonNegative(st_chunks[chunk_index]) )
    => /\ full_grid' = full_grid
       /\ reg_calls' = reg_calls
       /\ st_pc' = "chunk"
       /\ chunk_index' = chunk_index + 1

\* C5 (state part): a cell that only chunks at negative positions reach is 0
\* in the returned grid.
C5_NegativeChunksLeaveZero ==
    Stitched =>
        \A p \in GridCells :
            Covering(p[1], p[2]) = {} => CellAt(p[1], p[2]) = Gid(0, 0)

\* C5: a chunk with a negative x or a negative y is skipped entirely: no
\* cell changes, not even those it would place in bounds, and the run goes
\* on as if the chunk were not in the list.
C5_NegativeChunkSkipped ==
    [](C5_NegativeChunksLeaveZero) /\ [][C5_SkipStep]_vars

\* C5 witness: a chunk at a negative position holds a non-empty tile that
\* would land in bounds, and the returned grid has 0 there.
C5_Witness ==
    /\ Stitched
    /\ \E i \in ChunkIds, p \in GridCells :
          /\ ~NonNegative(st_chunks[i])
          /\ Covers(st_chunks[i], p[1], p[2])
          /\ Complete(st_chunks[i])
          /\ RawAt(st_chunks[i], p[1], p[2]) # Gid(0, 0)
          /\ Covering(p[1], p[2]) = {}
          /\ CellAt(p[1], p[2]) = Gid(0, 0)
    /\ \E i \in ChunkIds : NonNegative(st_chunks[i])

\* C6: a chunk at a non-negative position that extends past the grid gets
\* its in-bounds cells written, its other cells skipped without an error
\* (an IndexError only comes from a cell absent from the chunk's own grid),
\* and at most one out-of-bounds warning.
C6_OutOfBoundsSkippedOnce ==
    /\ \A i \in ChunkIds : Cardinality(OutOfBoundsWarnings(i)) <= 1
    /\ st_pc = "IndexError" =>
          ( \/ st_y >= Len(st_chunks[chunk_index].grid)
            \/ st_x >= Len(st_chunks[chunk_index].grid[st_y + 1]) )
    /\ Stitched =>
          \A i \in ChunkIds :
              ( NonNegative(st_chunks[i]) /\ OutOfBoundsCells(st_chunks[i]) # {} )
              => \A p \in GridCells :
                    ( Covering(p[1], p[2]) # {} /\ LastOf(Covering(p[1], p[2])) = i )
                    => CellAt(p[1], p[2]) =
                         register_gid_check_flags(RawAt(st_chunks[i], p[1], p[2]))

\* C6 witness: a chunk with one cell in bounds and several out of bounds was
\* stitched: the cell is written and one warning was logged for the chunk.
C6_Witness ==
    /\ Stitched
    /\ \E i \in ChunkIds :
          /\ NonNegative(st_chunks[i])
          /\ Cardinality(OutOfBoundsCells(st_chunks[i])) >= 3
          /\ Cardinality(OutOfBoundsWarnings(i)) = 1
          /\ \E p \in GridCells :
                /\ Covering(p[1], p[2]) = {i}
                /\ CellAt(p[1], p[2]) # Gid(0, 0)

\* C7 as stated: a run that returns a grid had no chunk at a non-negative
\* position with a row shorter than its declared width or with fewer rows
\* than its declared height.
C7_AsStated ==
    Stitched =>
        ~ \E i \in ChunkIds :
            /\ NonNegative(st_chunks[i])
            /\ \/ Len(st_chunks[i].grid) < st_chunks[i].size[2]
               \/ \E r \in DOMAIN st_chunks[i].grid :
                     Len(st_chunks[i].grid[r]) < st_chunks[i].size[1]

\* C7 amended: stitch_chunks ends in IndexError, returning no grid, whenever
\* a chunk at a non-negative position lacks a cell (x, y) with 0 <= x below
\* its declared width and 0 <= y below its declared height; the run stops
\* there with no skip and no warning for it.  A grid extract_chunks cut from
\* fewer than width*height GIDs is such a chunk, unless the declared width
\* and height are both negative: then no cell is visited and none is missed.
C7_MissingCellFails ==
    /\ Stitched =>
          ~ \E i \in ChunkIds :
                NonNegative(st_chunks[i]) /\ MissingCell(st_chunks[i])
    /\ st_pc \in {"init", "chunk", "cell"} => ENABLED NextStitch
    /\ st_pc = "IndexError" =>
          /\ NonNegative(st_chunks[chunk_index])
          /\ MissingCell(st_chunks[chunk_index])
          /\ ~ENABLED NextStitch
    /\ \A i \in ChunkIds :
          ( \E n \in 0..(st_chunks[i].size[1] * st_chunks[i].size[2] - 1) :
                st_chunks[i].grid =
                  ExtractGrid([k \in 1..n |-> G(k)],
                              st_chunks[i].size[1], st_chunks[i].size[2]) )
          => ( MissingCell(st_chunks[i])
                 <=> (st_chunks[i].size[1] > 0 /\ st_chunks[i].size[2] > 0) )

\* C7 witness: after a chunk of negative width and height, passed without a
\* cell visited, stitching stopped with IndexError inside a chunk whose grid
\* extract_chunks cut from 3 GIDs for a declared 2x2 size.
C7_Witness ==
    /\ st_pc = "IndexError"
    /\ chunk_index = 2
    /\ NonNegative(st_chunks[1])
    /\ st_chunks[1].size = <<-1, -1>>
    /\ st_chunks[chunk_index].grid = ExtractGrid(<<G(1), G(2), G(3)>>, 2, 2)
    /\ st_chunks[chunk_index].size = <<2, 2>>
    /\ Len(reg_calls) >= 3

\* the raw GIDs of a chunk's declared rectangle in row-major order; the
\* rectangle has no cell when the width or the height is not positive
RowMajor(c) ==
    IF c.size[1] <= 0 \/ c.size[2] <= 0 THEN <<>>
    ELSE [k \in 1..(c.size[1] * c.size[2]) |->
             c.grid[((k - 1) \div c.size[1]) + 1][((k - 1) % c.size[1]) + 1]]
RECURSIVE ExpectedCalls(_)
\* the raw GIDs registered for the first n chunks of the list
ExpectedCalls(n) ==
    IF n = 0 THEN <<>>
    ELSE ExpectedCalls(n - 1) \o
         (IF NonNegative(st_chunks[n]) THEN RowMajor(st_chunks[n]) ELSE <<>>)

\* C8: register_gid_check_flags is called once per cell of every chunk that
\* is not skipped, in list order and row-major order, out-of-bounds cells
\* included, never for a skipped chunk; a written cell holds what the call
\* for it returned.
C8_RegisterOncePerCell ==
    Stitched =>
        /\ [k \in DOMAIN reg_calls |-> reg_calls[k].raw] =
              ExpectedCalls(Len(st_chunks))
        /\ \A p \in GridCells :
              LET cov == Covering(p[1], p[2]) IN
              cov # {} =>
                  \E k \in DOMAIN reg_calls :
                      /\ reg_calls[k].raw =
                            RawAt(st_chunks[LastOf(cov)], p[1], p[2])
                      /\ CellAt(p[1], p[2]) = reg_calls[k].ret
                      /\ HasFlags(reg_calls[k].raw) =>
                            CellAt(p[1], p[2]) # reg_calls[k].raw

\* C8 witness: a list with a skipped chunk and a chunk holding tile 0 and
\* out-of-bounds cells was stitched, with a call for each visited cell.
C8_Witness ==
    /\ Stitched
    /\ Len(st_chunks) = 2
    /\ ~NonNegative(st_chunks[1])
    /\ st_chunks[1].size = <<2, 2>>
    /\ NonNegative(st_chunks[2])
    /\ Cardinality(OutOfBoundsCells(st_chunks[2])) = 3
    /\ Len(reg_calls) = 4
    /\ \E k \in DOMAIN reg_calls : HasFlags(reg_calls[k].raw)

(***************************************************************************)
(* Vocabulary of the claims on extract_chunks                              *)
(***************************************************************************)
Extracted == ex_pc = "done"
AttributeKeys == {"x", "y", "width", "height"}
\* the node has text and the text decodes under the call's configuration
Extractable(node) == node.text.present /\ DecodeNode(node).ok
ExtractableNodes == SelectSeq(ex_nodes, Extractable)
\* the attribute is there, is not empty and is no integer literal
Unparsable(node, key) ==
    /\ key \in DOMAIN node.attrib
    /\ node.attrib[key] # <<>>
    /\ ~ParseInt(node.attrib[key]).ok
Absent(node, key) == key \notin DOMAIN node.attrib \/ node.attrib[key] = <<>>

\* C9: the returned list holds exactly one Chunk per node that has text
\* decoding without error, in input order; nodes without text or with
\* undecodable text are left out without an error, and later nodes are
\* still extracted (the only error leaving the loop is an attribute's).
C9_ExtractKeepsDecodableNodes ==
    /\ Extracted =>
          /\ Len(ex_chunks) = Len(ExtractableNodes)
          /\ \A k \in DOMAIN ex_chunks :
                ex_chunks[k] =
                  ChunkOf(ExtractableNodes[k], DecodeNode(ExtractableNodes[k]))
    /\ ex_pc = "ValueError" => ~AttributesOk(ex_nodes[ex_i])

\* C9 witness: the first node's text does not decode, the second node was
\* extracted all the same.
C9_Witness ==
    /\ Extracted
    /\ Len(ex_nodes) = 2
    /\ ex_nodes[1].text.present
    /\ ~DecodeNode(ex_nodes[1]).ok
    /\ Len(ex_chunks) = 1
    /\ ex_chunks[1].grid = << <<G(1), G(2)>>, <<G(3), G(4)>> >>
    /\ ex_chunks[1].position = <<0, 0>>

\* C10 as stated: a call that returns a list saw only nodes whose x, y,
\* width and height are all present and parsable as integers.
C10_AsStated ==
    Extracted =>
        \A i \in DOMAIN ex_nodes : \A key \in AttributeKeys :
            /\ key \in DOMAIN ex_nodes[i].attrib
            /\ ParseInt(ex_nodes[i].attrib[key]).ok

\* the ValueError is final: no step follows it, no list is returned
C10_ErrorIsFinal == ex_pc = "ValueError" => ex_pc' = "ValueError" /\ UNCHANGED vars

C10_UnparsableOnly ==
    /\ Extracted =>
          /\ \A i \in DOMAIN ex_nodes : \A key \in AttributeKeys :
                ~Unparsable(ex_nodes[i], key)
          /\ \A k \in DOMAIN ExtractableNodes :
                /\ k \in DOMAIN ex_chunks
                /\ Absent(ExtractableNodes[k], "x")
                      => ex_chunks[k].position[1] = 0
                /\ Absent(ExtractableNodes[k], "y")
                      => ex_chunks[k].position[2] = 0
                /\ Absent(ExtractableNodes[k], "width")
                      => ex_chunks[k].size[1] = 0
                /\ Absent(ExtractableNodes[k], "height")
                      => ex_chunks[k].size[2] = 0
    /\ ex_pc = "ValueError" =>
          \E key \in AttributeKeys : Unparsable(ex_nodes[ex_i], key)

\* C10 amended: extract_chunks fails with ValueError, returning no list,
\* whenever a node's x, y, width or height is present, non-empty and not
\* parsable as an integer; a missing or empty attribute is read as 0.
C10_UnparsableAttributeFatal ==
    [](C10_UnparsableOnly) /\ [][C10_ErrorIsFinal]_vars

\* C10 witness: the second node's height is "2.0": the call ended with
\* ValueError although the first node had been extracted.
C10_Witness ==
    /\ ex_pc = "ValueError"
    /\ ex_i = 2
    /\ Len(ex_chunks) = 1
    /\ Unparsable(ex_nodes[2], "height")

RECURSIVE Flatten(_)
\* the concatenation of a grid's rows
Flatten(grid) ==
    IF grid = <<>> THEN <<>> ELSE Head(grid) \o Flatten(Tail(grid))

\* the first n elements of a sequence (all of it when it has fewer)
Prefix(seq, n) == [k \in 1..Min(Len(seq), Max(n, 0)) |-> seq[k]]
Mismatched(node) ==
    LET chunk == ChunkOf(node, DecodeNode(node))
    IN  Len(DecodeNode(node).gids) # chunk.size[1] * chunk.size[2]
MismatchWarnings ==
    Cardinality({k \in DOMAIN ex_log : ex_log[k].kind = "gid-count-mismatch"})
MismatchedNodes ==
    Cardinality({k \in DOMAIN ExtractableNodes : Mismatched(ExtractableNodes[k])})

\* C11 as stated: whatever the decoded count, the rows of the chunk's grid
\* concatenated are the decoded GID sequence.
C11_AsStated ==
    Extracted =>
        \A k \in DOMAIN ExtractableNodes :
            /\ k \in DOMAIN ex_chunks
            /\ Flatten(ex_chunks[k].grid) = DecodeNode(ExtractableNodes[k]).gids

\* C11 amended: a count mismatch only warns and the chunk is returned; its
\* grid has `height` rows, none for a negative height.  For a width that is
\* not negative, row r holds the decoded GIDs r*width .. (r+1)*width-1 that
\* exist, so that the rows concatenated are the first width*height decoded
\* GIDs (none when that product is negative): none is added, none is
\* dropped when there are fewer, and those beyond width*height are dropped.
\* For a negative width the first row holds all decoded GIDs but the last
\* |width|, and every other row is empty.
C11_GridIsDeclaredRowsOfDecoded ==
    Extracted =>
        /\ MismatchWarnings = MismatchedNodes
        /\ \A k \in DOMAIN ExtractableNodes :
              LET gids == DecodeNode(ExtractableNodes[k]).gids
                  chunk == ex_chunks[k]
                  width == chunk.size[1]
                  height == chunk.size[2]
              IN  /\ k \in DOMAIN ex_chunks
                  /\ Len(chunk.grid) = Max(height, 0)
                  /\ width >= 0 =>
                        /\ \A r \in 1..height :
                              /\ Len(chunk.grid[r]) =
                                   Max(0, Min(width,
                                              Len(gids) - (r - 1) * width))
                              /\ \A c \in 1..Len(chunk.grid[r]) :
                                    chunk.grid[r][c] =
                                      gids[(r - 1) * width + c]
                        /\ Flatten(chunk.grid) = Prefix(gids, width * height)
                  /\ width < 0 =>
                        \A r \in 1..height :
                            chunk.grid[r] =
                              IF r = 1 THEN Prefix(gids, Len(gids) + width)
                              ELSE <<>>

\* C11 witness: a returned 1 x 2 chunk decoded from four GIDs, warned about,
\* whose grid keeps the first two GIDs only, and a returned chunk of height
\* -1 decoded from two GIDs, warned about, whose grid has no row.
C11_Witness ==
    /\ Extracted
    /\ Len(ex_nodes) = 2
    /\ Len(ex_chunks) = 2
    /\ DecodeNode(ex_nodes[1]).gids = <<G(1), G(2), G(3), G(4)>>
    /\ ex_chunks[1].size = <<1, 2>>
    /\ ex_chunks[1].grid = << <<G(1)>>, <<G(2)>> >>
    /\ DecodeNode(ex_nodes[2]).gids = <<G(1), G(2)>>
    /\ ex_chunks[2].size = <<2, -1>>
    /\ ex_chunks[2].grid = <<>>
    /\ MismatchWarnings = 2

(***************************************************************************)
(* unpack_gids (utils.py lines 110-140), and one call of unpack_gids and   *)
(* of decode_chunk_data on the same (text, encoding, compression)          *)
(***************************************************************************)
UnpackFailed == [ok |-> FALSE, gids |-> <<>>]

\* lines 118-128: the compression branch on the base64-decoded bytes
DecompressLayer(data, compression, zstd) ==
    CASE compression = "gzip" -> Decompress(GzipStreams, data)
      [] compression = "zlib" -> Decompress(ZlibStreams, data)
      [] compression = "zstd" ->
            IF zstd THEN Decompress(ZstdStreams, data) ELSE DecodeFailed
      [] OTHER ->
            IF ~Falsy(compression) THEN DecodeFailed
            ELSE [ok |-> TRUE, bytes |-> data]

\* lines 132-134: if not text.strip(): return []
\*                return [int(i) for i in text.split(",")]
CsvLayerInts(text) ==
    IF Strip(text) = <<>> THEN [ok |-> TRUE, gids |-> <<>>]
    ELSE LET parts == Split(text, ",")
             parsed == [k \in DOMAIN parts |-> ParseInt(parts[k])]
         IN  IF \E k \in DOMAIN parsed : ~parsed[k].ok
             THEN UnpackFailed
             ELSE [ok |-> TRUE,
                   gids |-> [k \in DOMAIN parsed |-> parsed[k].val]]

unpack_gids(text, encoding, compression, zstd) ==
    IF encoding = "base64"
    THEN LET decoded == b64decode(text) IN
         IF ~decoded.ok THEN UnpackFailed
         ELSE LET data == DecompressLayer(decoded.bytes, compression, zstd) IN
              IF ~data.ok THEN UnpackFailed
              ELSE UnpackLE(data.bytes)
    ELSE IF encoding = "csv" THEN CsvLayerInts(text)
    ELSE IF ~Falsy(encoding) THEN UnpackFailed
    ELSE [ok |-> TRUE, gids |-> <<>>]

\* base64 of zlib of the 3 bytes 7, 0, 0
TextZlibThreeBytes ==
    <<"e", "J", "x", "j", "Z", "2", "A", "A", "A", "A", "A", "Y", "A", "A",
      "g", "=">>
\* base64 of the 5 bytes 1, 0, 0, 0, 2
TextFiveBytes == <<"A", "Q", "A", "A", "A", "A", "I", "=">>
\* base64 of the 8 bytes 255, 255, 255, 255, 0, 1, 2, 3
TextMaxGid == <<"/", "/", "/", "/", "/", "w", "A", "B", "A", "g", "M", "=">>
\* base64 of the 2 bytes 9, 0
TextTwoBytes == <<"C", "Q", "A", "=">>

DecodeTexts ==
    { TextZlib1234, TextRawFlagged, TextZlib12, TextGzip5, TextNotBase64,
      TextCsvFlagged, TextCsv123, TextZlibThreeBytes, TextFiveBytes,
      TextMaxGid, TextTwoBytes,
      <<>>, <<" ">>, <<"\n", " ">>, <<"1", ",", ",", "2">>,
      <<" ", "7", " ", ",", "8", "\n">>, <<"1", ",", "2", ",">> }
DecodeEncodings == {"None", "", "base64", "csv", "json"}
DecodeCompressions == {"None", "", "zlib", "gzip", "zstd", "lzma"}

dcRest == <<gidVars, stVars, exVars, rsVars, lyVars, rotVars, pgVars,
           geoVars>>

DecodeInit ==
    /\ dc_text \in DecodeTexts
    /\ dc_encoding \in DecodeEncodings
    /\ dc_compression \in DecodeCompressions
    /\ dc_pc = "call"
    /\ unpack_ret = <<>>
    /\ chunk_ret = <<>>

\* the extract_chunks variables at rest, the zstd import having gone either way
ExtractIdleEitherZstd ==
    /\ ex_nodes = <<>>
    /\ ex_encoding = "None"
    /\ ex_compression = "None"
    /\ zstd_module \in BOOLEAN
    /\ ex_i = 0
    /\ ex_chunks = <<>>
    /\ ex_pc = "idle"
    /\ ex_log = <<>>

UnpackGidsCall ==
    /\ dc_pc = "call"
    /\ unpack_ret' = unpack_gids(dc_text, dc_encoding, dc_compression,
                                 zstd_module)
    /\ dc_pc' = "unpacked"
    /\ UNCHANGED <<dc_text, dc_encoding, dc_compression, chunk_ret, dcRest>>

DecodeChunkDataCall ==
    /\ dc_pc = "unpacked"
    /\ chunk_ret' = decode_chunk_data(dc_text, dc_encoding, dc_compression,
                                      zstd_module)
    /\ dc_pc' = "done"
    /\ UNCHANGED <<dc_text, dc_encoding, dc_compression, unpack_ret, dcRest>>

InitDecode ==
    /\ GidIdle /\ StitchIdle /\ ExtractIdleEitherZstd
    /\ DecodeInit
    /\ ReshapeIdle /\ LayerIdle /\ RotationIdle /\ PolygonIdle /\ GeoIdle
NextDecode == UnpackGidsCall \/ DecodeChunkDataCall
SpecDecode == InitDecode /\ [][NextDecode]_vars

(***************************************************************************)
(* Vocabulary of the claims on unpack_gids and decode_chunk_data           *)
(***************************************************************************)
Unpacked == dc_pc \in {"unpacked", "done"}
BothDecoded == dc_pc = "done"
BlankText == \A k \in DOMAIN dc_text : dc_text[k] \in Whitespace

\* C12 as stated: on the same (text, encoding, compression) decode_chunk_data
\* fails exactly when unpack_gids fails and otherwise yields the same GIDs.
C12_AsStated ==
    BothDecoded =>
        /\ chunk_ret.ok = unpack_ret.ok
        /\ chunk_ret.gids = unpack_ret.gids

\* C12, where the two decoders part: empty or blank CSV text, for which
\* unpack_gids returns the empty sequence and decode_chunk_data fails.
C12_DivergenceReached ==
    /\ BothDecoded
    /\ dc_encoding = "csv"
    /\ dc_text = <<" ">>
    /\ unpack_ret = [ok |-> TRUE, gids |-> <<>>]
    /\ ~chunk_ret.ok

\* C12, the extent of the divergence: the two decoders agree on every input
\* other than blank CSV text.
C12_AgreeUnlessBlankCsv ==
    (BothDecoded /\ ~(dc_encoding = "csv" /\ BlankText)) =>
        /\ chunk_ret.ok = unpack_ret.ok
        /\ chunk_ret.gids = unpack_ret.gids

\* C13 as stated: unpack_gids never returns a sequence when the encoding is
\* neither "base64" nor "csv", be it unknown or unset.
C13_AsStated ==
    (Unpacked /\ dc_encoding \notin {"base64", "csv"}) => ~unpack_ret.ok

\* C13 amended: unpack_gids fails (ValueError) when the encoding is a
\* non-empty value other than "base64" and "csv"; when the encoding is unset
\* (None or empty) it returns the empty GID sequence without error.
C13_UnknownFailsUnsetIsEmpty ==
    (Unpacked /\ dc_encoding \notin {"base64", "csv"}) =>
        IF dc_encoding \in {"None", ""}
        THEN unpack_ret = [ok |-> TRUE, gids |-> <<>>]
        ELSE ~unpack_ret.ok

\* C13 witness: encoding "json" on CSV text has failed
C13_Witness ==
    /\ Unpacked
    /\ dc_encoding = "json"
    /\ dc_text = TextCsv123
    /\ ~unpack_ret.ok

\* the payload of base64 text: decoded, then decompressed
Payload ==
    LET decoded == b64decode(dc_text) IN
    IF ~decoded.ok THEN DecodeFailed
    ELSE DecompressLayer(decoded.bytes, dc_compression, zstd_module)

\* byte j (0 = least significant) of a 32-bit value kept as two words
ByteOf(gid, j) ==
    IF j < 2 THEN (gid.lo \div (256 ^ j)) % 256
    ELSE (gid.hi \div (256 ^ (j - 2))) % 256

\* C14: a base64 payload of 4n bytes unpacks to n values in 0..2^32-1,
\* value i having the bytes b[4i], b[4i+1], b[4i+2], b[4i+3] from the least
\* significant up; a payload whose length is no multiple of 4 yields no
\* sequence at all.
C14_LittleEndianOrNothing ==
    (Unpacked /\ dc_encoding = "base64" /\ Payload.ok) =>
        LET b == Payload.bytes
            n == Len(b) \div 4
        IN  IF Len(b) = 4 * n
            THEN /\ unpack_ret.ok
                 /\ Len(unpack_ret.gids) = n
                 /\ \A i \in 1..n :
                       /\ unpack_ret.gids[i].hi \in 0..(W16 - 1)
                       /\ unpack_ret.gids[i].lo \in 0..(W16 - 1)
                       /\ \A j \in 0..3 :
                             ByteOf(unpack_ret.gids[i], j) = b[4 * (i - 1) + j + 1]
            ELSE ~unpack_ret.ok /\ unpack_ret.gids = <<>>

\* C14 witness: the bytes ff ff ff ff 00 01 02 03 unpacked to 2^32-1 and
\* 0x03020100
C14_Witness ==
    /\ Unpacked
    /\ dc_encoding = "base64"
    /\ dc_compression = "None"
    /\ dc_text = TextMaxGid
    /\ unpack_ret.gids = <<Gid(65535, 65535), Gid(770, 256)>>

(***************************************************************************)
(* reshape_data (utils.py lines 105-107)                                   *)
(***************************************************************************)
MaxGids == 4
MaxWidth == 3

ReshapeFailed == [ok |-> FALSE, rows |-> <<>>]

\* range(0, n, step) for step # 0, as the sequence of its values
RangeFromZero(n, step) ==
    IF step < 0 \/ n <= 0 THEN <<>>
    ELSE [k \in 1..((n + step - 1) \div step) |-> (k - 1) * step]

\* a mutant of reshape_data: a short last row is left out
reshape_data_full_rows(gids, width) ==
    IF width = 0 THEN ReshapeFailed
    ELSE [ok |-> TRUE,
          rows |-> [k \in 1..(IF width < 0 THEN 0 ELSE Len(gids) \div width)
                      |-> PySlice(gids, (k - 1) * width, k * width)]]

\* return [gids[i : i + width] for i in range(0, len(gids), width)]
\* (range raises ValueError for a step of zero)
reshape_data(gids, width) ==
    IF width = 0 THEN ReshapeFailed
    ELSE LET starts == RangeFromZero(Len(gids), width)
         IN  [ok |-> TRUE,
              rows |-> [k \in DOMAIN starts |->
                          PySlice(gids, starts[k], starts[k] + width)]]

ReshapeValues == {G(1), G(2)}
ReshapeGids == UNION { [1..n -> ReshapeValues] : n \in 0..MaxGids }
ReshapeWidths == -1..MaxWidth

rsRest == <<gidVars, stVars, exVars, dcVars, lyVars, rotVars, pgVars,
           geoVars>>

ReshapeInit ==
    /\ rs_gids \in ReshapeGids
    /\ rs_width \in ReshapeWidths
    /\ rs_pc = "call"
    /\ rs_ret = <<>>

\* the list comprehension ran to its end
ReshapeReturn ==
    /\ rs_pc = "call"
    /\ reshape_data(rs_gids, rs_width).ok
    /\ rs_ret' = reshape_data(rs_gids, rs_width).rows
    /\ rs_pc' = "done"
    /\ UNCHANGED <<rs_gids, rs_width, rsRest>>

\* range(0, len(gids), 0) raised
ReshapeRaise ==
    /\ rs_pc = "call"
    /\ ~reshape_data(rs_gids, rs_width).ok
    /\ rs_pc' = "ValueError"
    /\ UNCHANGED <<rs_gids, rs_width, rs_ret, rsRest>>

InitReshape ==
    /\ CoreIdle /\ DecoderIdle /\ ReshapeInit
    /\ LayerIdle /\ RotationIdle /\ PolygonIdle /\ GeoIdle
NextReshape == ReshapeReturn \/ ReshapeRaise
SpecReshape == InitReshape /\ [][NextReshape]_vars

\* the grid of `rows` rows of length `width` whose rows concatenated are gids
GridOf(gids, rows, width) ==
    [r \in 1..rows |-> [c \in 1..width |-> gids[(r - 1) * width + c]]]
\* the numbers of rows a rectangular grid of this width holding gids can have
RowCounts(gids, width) ==
    {rows \in 0..(MaxGids + 1) : width >= 0 /\ rows * width = Len(gids)}
Reshaped == rs_pc \in {"done", "ValueError"}

\* C15 as stated: for every rectangular grid of rows of length `width`,
\* reshape_data(its rows concatenated, width) is the grid.
C15_AsStated ==
    Reshaped =>
        \A rows \in RowCounts(rs_gids, rs_width) :
            rs_pc = "done" /\ rs_ret = GridOf(rs_gids, rows, rs_width)

\* C15 amended: for width >= 1, reshape_data(gids, width) returns
\* ceil(len/width) rows whose concatenation is gids, each of length width
\* but for a shorter last one, and gives back every rectangular grid from
\* its rows concatenated; for width = 0 it fails with ValueError, even on
\* no GIDs; for a negative width it returns no rows.
C15_ReshapeByPositiveWidth ==
    Reshaped =>
        /\ rs_width >= 1 =>
              /\ rs_pc = "done"
              /\ Len(rs_ret) = (Len(rs_gids) + rs_width - 1) \div rs_width
              /\ Flatten(rs_ret) = rs_gids
              /\ \A r \in DOMAIN rs_ret :
                    /\ Len(rs_ret[r]) \in 1..rs_width
                    /\ r < Len(rs_ret) => Len(rs_ret[r]) = rs_width
              /\ \A rows \in RowCounts(rs_gids, rs_width) :
                    rs_ret = GridOf(rs_gids, rows, rs_width)
        /\ rs_width = 0 => rs_pc = "ValueError" /\ rs_ret = <<>>
        /\ rs_width < 0 => rs_pc = "done" /\ rs_ret = <<>>

\* C15 witness: three GIDs in rows of two: a full row and a short last row
C15_Witness ==
    /\ rs_pc = "done"
    /\ rs_width = 2
    /\ rs_gids = <<G(1), G(2), G(1)>>
    /\ rs_ret = << <<G(1), G(2)>>, <<G(1)>> >>

(***************************************************************************)
(* TiledTileLayer.parse_xml (tile_layer.py lines 88-120)                   *)
(***************************************************************************)
\* a <layer> node: the width _set_properties leaves in self.width, and its
\* <data> child: how many <chunk> and <tile> children it has, its text and
\* its encoding and compression attributes
LayerNode(width, chunks, tiles, data) ==
    [width |-> width, chunks |-> chunks, tiles |-> tiles, text |-> data[1],
     encoding |-> data[2], compression |-> data[3]]

LayerWidths == {0, 1, 2}
LayerData ==
    { <<Text(TextCsvFlagged), "csv", "None">>,
      <<Text(<<"\n", " ">> \o TextZlib1234 \o <<"\n">>), "base64", "zlib">>,
      <<Text(TextRawFlagged), "base64", "None">>,
      <<Text(TextNotBase64), "base64", "None">>,
      <<Text(TextCsv123), "None", "None">>,
      <<Text(TextCsv123), "json", "None">>,
      <<Text(<<"\n", " ">>), "csv", "None">>,
      <<TextNone, "None", "None">> }
LayerNodes ==
    { LayerNode(width, chunks, tiles, data) :
        width \in LayerWidths, chunks \in {0, 2}, tiles \in {0, 1},
        data \in LayerData }

\* a mutant of HasInlineTiles: <tile> children go unnoticed
HasInlineTilesIgnored(node) == FALSE
\* lines 106-107: data_node.find("tile") is not None
HasInlineTiles(node) == node.tiles > 0
\* lines 100-101: data_node.findall("chunk") is not empty
HasChunks(node) == node.chunks > 0

\* lines 112-116: unpack_gids(text=data_node.text.strip(), ...)
LayerUnpacked(node) ==
    unpack_gids(Strip(node.text.chars), node.encoding, node.compression,
                zstd_module)

lyRest == <<gidVars, stVars, exVars, dcVars, rsVars, rotVars, pgVars,
           geoVars>>

LayerInit ==
    /\ ly_node \in LayerNodes
    /\ ly_pc = "find"
    /\ ly_gids = <<>>
    /\ ly_temp = <<>>
    /\ ly_data = <<>>
    /\ ly_calls = <<>>

\* lines 100-104: raise Exception
LayerRejectChunks ==
    /\ ly_pc = "find"
    /\ HasChunks(ly_node)
    /\ ly_pc' = "Exception"
    /\ UNCHANGED <<ly_node, ly_gids, ly_temp, ly_data, ly_calls, lyRest>>

\* lines 106-108: raise ValueError("XML tile elements are no longer ...")
LayerRejectTiles ==
    /\ ly_pc = "find"
    /\ ~HasChunks(ly_node)
    /\ HasInlineTiles(ly_node)
    /\ ly_pc' = "ValueError"
    /\ UNCHANGED <<ly_node, ly_gids, ly_temp, ly_data, ly_calls, lyRest>>

\* line 113: data_node.text is None, None has no strip
LayerNoText ==
    /\ ly_pc = "find"
    /\ ~HasChunks(ly_node)
    /\ ~HasInlineTiles(ly_node)
    /\ ~ly_node.text.present
    /\ ly_pc' = "AttributeError"
    /\ UNCHANGED <<ly_node, ly_gids, ly_temp, ly_data, ly_calls, lyRest>>

\* lines 112-116: unpack_gids raised
LayerUnpackFailed ==
    /\ ly_pc = "find"
    /\ ~HasChunks(ly_node)
    /\ ~HasInlineTiles(ly_node)
    /\ ly_node.text.present
    /\ ~LayerUnpacked(ly_node).ok
    /\ ly_pc' = "unpack-failed"
    /\ UNCHANGED <<ly_node, ly_gids, ly_temp, ly_data, ly_calls, lyRest>>

\* lines 112-116: unpack_gids returned the list the comprehension runs over
LayerUnpack ==
    /\ ly_pc = "find"
    /\ ~HasChunks(ly_node)
    /\ ~HasInlineTiles(ly_node)
    /\ ly_node.text.present
    /\ LayerUnpacked(ly_node).ok
    /\ ly_gids' = LayerUnpacked(ly_node).gids
    /\ ly_pc' = "register"
    /\ UNCHANGED <<ly_node, ly_temp, ly_data, ly_calls, lyRest>>

\* lines 110-111: one element of temp: self.parent.register_gid_check_flags(gid)
LayerRegister ==
    /\ ly_pc = "register"
    /\ Len(ly_temp) < Len(ly_gids)
    /\ LET gid == ly_gids[Len(ly_temp) + 1] IN
          /\ ly_calls' = Append(ly_calls, gid)
          /\ ly_temp' = Append(ly_temp, register_gid_check_flags(gid))
    /\ UNCHANGED <<ly_node, ly_pc, ly_gids, ly_data, lyRest>>

\* line 119: self.data = reshape_data(temp, self.width)
LayerReshape ==
    /\ ly_pc = "register"
    /\ Len(ly_temp) = Len(ly_gids)
    /\ reshape_data(ly_temp, ly_node.width).ok
    /\ ly_data' = reshape_data(ly_temp, ly_node.width).rows
    /\ ly_pc' = "done"
    /\ UNCHANGED <<ly_node, ly_gids, ly_temp, ly_calls, lyRest>>

\* line 119: reshape_data raised (a width of 0)
LayerReshapeFailed ==
    /\ ly_pc = "register"
    /\ Len(ly_temp) = Len(ly_gids)
    /\ ~reshape_data(ly_temp, ly_node.width).ok
    /\ ly_pc' = "reshape-failed"
    /\ UNCHANGED <<ly_node, ly_gids, ly_temp, ly_data, ly_calls, lyRest>>

InitLayer ==
    /\ CoreIdle /\ DecoderIdle /\ ReshapeIdle /\ LayerInit
    /\ RotationIdle /\ PolygonIdle /\ GeoIdle
NextLayer ==
    \/ LayerRejectChunks
    \/ LayerRejectTiles
    \/ LayerNoText
    \/ LayerUnpackFailed
    \/ LayerUnpack
    \/ LayerRegister
    \/ LayerReshape
    \/ LayerReshapeFailed
SpecLayer == InitLayer /\ [][NextLayer]_vars

(***************************************************************************)
(* Vocabulary of the claim on TiledTileLayer.parse_xml                     *)
(***************************************************************************)
LayerUntouched ==
    ly_gids = <<>> /\ ly_temp = <<>> /\ ly_calls = <<>> /\ ly_data = <<>>
\* seq is the first Len(seq) elements of whole
IsPrefix(seq, whole) ==
    Len(seq) <= Len(whole) /\ \A k \in DOMAIN seq : seq[k] = whole[k]

\* C16: a data node with <chunk> children is rejected with an Exception and
\* one with <tile> children with a ValueError, no GID having been decoded or
\* registered and the layer's data left empty; GIDs are registered only when
\* neither is present, one by one in decoding order, and a finished parse
\* holds the registered values cut into rows of the layer width.
C16_LegacyFormatsRejectedFirst ==
    /\ ly_node.chunks > 0 =>
          ly_pc \in {"find", "Exception"} /\ LayerUntouched
    /\ (ly_node.chunks = 0 /\ ly_node.tiles > 0) =>
          ly_pc \in {"find", "ValueError"} /\ LayerUntouched
    /\ ly_pc \in {"Exception", "ValueError"} =>
          ly_node.chunks > 0 \/ ly_node.tiles > 0
    /\ ly_pc \in {"register", "done", "reshape-failed"} =>
          /\ ly_node.chunks = 0 /\ ly_node.tiles = 0
          /\ ly_gids = LayerUnpacked(ly_node).gids
          /\ IsPrefix(ly_calls, ly_gids)
          /\ Len(ly_temp) = Len(ly_calls)
          /\ \A k \in DOMAIN ly_temp :
                ly_temp[k] = register_gid_check_flags(ly_calls[k])
    /\ ly_pc = "done" =>
          /\ ly_calls = ly_gids
          /\ ly_node.width >= 1
          /\ Flatten(ly_data) = ly_temp
          /\ Len(ly_data) =
               (Len(ly_temp) + ly_node.width - 1) \div ly_node.width
          /\ \A r \in DOMAIN ly_data :
                r < Len(ly_data) => Len(ly_data[r]) = ly_node.width
    /\ ly_pc # "done" => ly_data = <<>>

\* C16 witness: CSV data that would decode, next to a <tile> child: rejected
\* with nothing decoded or registered
C16_Witness ==
    /\ ly_pc = "ValueError"
    /\ ly_node.tiles > 0
    /\ ly_node.encoding = "csv"
    /\ LayerUnpacked(ly_node).ok
    /\ LayerUnpacked(ly_node).gids # <<>>
    /\ LayerUntouched

(***************************************************************************)
(* get_rotation_from_flags (utils.py lines 74-83), on the flags decode_gid *)
(* hands out                                                               *)
(***************************************************************************)
\* a mutant of get_rotation_from_flags: the diagonal flag is not looked at
get_rotation_ignoring_diagonal(flags) ==
    IF flags.flipped_horizontally /\ ~flags.flipped_vertically THEN 90
    ELSE IF flags.flipped_horizontally /\ flags.flipped_vertically THEN 180
    ELSE IF ~flags.flipped_horizontally /\ flags.flipped_vertically THEN 270
    ELSE 0

get_rotation_from_flags(flags) ==
    IF flags.flipped_diagonally
    THEN IF flags.flipped_horizontally /\ ~flags.flipped_vertically THEN 90
         ELSE IF flags.flipped_horizontally /\ flags.flipped_vertically
         THEN 180
         ELSE IF ~flags.flipped_horizontally /\ flags.flipped_vertically
         THEN 270
         ELSE 0
    ELSE 0

\* raw GIDs: every combination of the three flag bits over a few tile ids
MaxTileId == 7
RotationInputs == { Gid(f * 2^13, t) : f \in 0..7, t \in 0..MaxTileId }

rotRest == <<stVars, exVars, dcVars, rsVars, lyVars, pgVars, geoVars>>

RotationInit ==
    /\ rot_gid \in RotationInputs
    /\ rot_pc = "decode"
    /\ rot_flags = empty_flags
    /\ rot_ret = 0

\* _, flags = decode_gid(raw_gid)
RotationDecode ==
    /\ rot_pc = "decode"
    /\ LET r == decode_gid(rot_gid, flag_cache) IN
          /\ rot_flags' = r.ret.flags
          /\ flag_cache' = r.cache
    /\ rot_pc' = "rotate"
    /\ UNCHANGED <<rot_gid, rot_ret, gid_pc, gid_arg, gid_flags, gid_ret,
                   gid_path, rotRest>>

RotationReturn ==
    /\ rot_pc = "rotate"
    /\ rot_ret' = get_rotation_from_flags(rot_flags)
    /\ rot_pc' = "done"
    /\ UNCHANGED <<rot_gid, rot_flags, gidVars, rotRest>>

InitRotation ==
    /\ CoreIdle /\ DecoderIdle /\ ReshapeIdle /\ LayerIdle
    /\ RotationInit /\ PolygonIdle /\ GeoIdle
NextRotation == RotationDecode \/ RotationReturn
SpecRotation == InitRotation /\ [][NextRotation]_vars

\* the three flag bits of a raw GID, read off its upper word
Bit(word, k) == (word \div (2 ^ k)) % 2 = 1
Horizontal == Bit(rot_gid.hi, 15)
Vertical == Bit(rot_gid.hi, 14)
Diagonal == Bit(rot_gid.hi, 13)

\* C17: the angle is 90 for diagonal+horizontal, 180 for all three flags,
\* 270 for diagonal+vertical, and 0 for the five other combinations.
C17_RotationTable ==
    rot_pc = "done" =>
        rot_ret =
          CASE <<Diagonal, Horizontal, Vertical>> = <<TRUE, TRUE, FALSE>> -> 90
            [] <<Diagonal, Horizontal, Vertical>> = <<TRUE, TRUE, TRUE>> -> 180
            [] <<Diagonal, Horizontal, Vertical>> = <<TRUE, FALSE, TRUE>> -> 270
            [] <<Diagonal, Horizontal, Vertical>> = <<TRUE, FALSE, FALSE>> -> 0
            [] <<Diagonal, Horizontal, Vertical>> = <<FALSE, TRUE, FALSE>> -> 0
            [] <<Diagonal, Horizontal, Vertical>> = <<FALSE, TRUE, TRUE>> -> 0
            [] <<Diagonal, Horizontal, Vertical>> = <<FALSE, FALSE, TRUE>> -> 0
            [] <<Diagonal, Horizontal, Vertical>> = <<FALSE, FALSE, FALSE>> -> 0

\* C17 witness: horizontal and vertical without the diagonal flag gave 0
C17_Witness ==
    /\ rot_pc = "done"
    /\ Horizontal /\ Vertical /\ ~Diagonal
    /\ rot_flags = TileFlags(TRUE, TRUE, FALSE)
    /\ rot_ret = 0

(***************************************************************************)
(* point_in_polygon and is_convex (utils.py lines 263-296)                 *)
(*                                                                         *)
(* Vertices have integer coordinates.  A point is (x + dx * delta, y) with *)
(* x, y integers and dx in {-1, 0, 1}: delta is a displacement far smaller *)
(* than the shift the code's 1e-10 gives an intersection abscissa, so that *)
(* points next to an edge are among the inputs.  The float expression      *)
(*     x < (xj - xi) * (y - yi) / (yj - yi + 1e-10) + xi                   *)
(* is decided exactly, in the orders of magnitude 1 >> 1e-10 >> delta.     *)
(***************************************************************************)
MaxCoord == 11

Point(x, y) == [x |-> x, y |-> y]
Near(x, dx, y) == [x |-> x, dx |-> dx, y |-> y]

\* t + dx*delta < num / (den + 1e-10), for integers t, num and den # 0
LessThanCrossing(t, dx, num, den) ==
    IF den > 0
    THEN \/ t * den < num
         \/ t * den = num /\ (IF num # 0 THEN t < 0 ELSE dx < 0)
    ELSE \/ t * den > num
         \/ t * den = num /\ (IF num # 0 THEN t > 0 ELSE dx < 0)

\* lines 274-276: intersect = ((yi > y) != (yj > y)) and (x < ... + xi)
Intersect(point, pi, pj) ==
    /\ (pi.y > point.y) # (pj.y > point.y)
    /\ LessThanCrossing(point.x - pi.x, point.dx,
                        (pj.x - pi.x) * (point.y - pi.y), pj.y - pi.y)

\* a mutant of Previous: the edge closing the polygon is not visited
PreviousWithoutWrap(i, n) == IF i = 1 THEN 1 ELSE i - 1

\* line 270: j = (i - 1) % n, on 1-based indices
Previous(i, n) == IF i = 1 THEN n ELSE i - 1

\* lines 286-287
cross(p1, p2, p3) ==
    (p2.x - p1.x) * (p3.y - p1.y) - (p2.y - p1.y) * (p3.x - p1.x)

\* lines 289-296, the vertex after i and the one after that, cyclically
Following(i, k, n) == ((i - 1 + k) % n) + 1
signs(polygon) ==
    [i \in 1..Len(polygon) |->
        cross(polygon[i], polygon[Following(i, 1, Len(polygon))],
              polygon[Following(i, 2, Len(polygon))]) > 0]

\* return all(signs) or not any(signs)
is_convex(polygon) ==
    \/ \A i \in DOMAIN signs(polygon) : signs(polygon)[i]
    \/ ~(\E i \in DOMAIN signs(polygon) : signs(polygon)[i])

Reverse(seq) == [k \in 1..Len(seq) |-> seq[Len(seq) + 1 - k]]

\* the polygons of the tests
Square == <<Point(0, 0), Point(0, 10), Point(10, 10), Point(10, 0)>>
Triangle == <<Point(0, 0), Point(5, 10), Point(10, 0)>>
Arrow == <<Point(0, 0), Point(5, 5), Point(10, 0), Point(5, 10)>>
\* further simple polygons: a right triangle, an L shape, a rectangle with a
\* vertex in the middle of a side
RightTriangle == <<Point(0, 0), Point(10, 10), Point(10, 0)>>
LShape ==
    <<Point(0, 0), Point(8, 0), Point(8, 4), Point(4, 4), Point(4, 8),
      Point(0, 8)>>
SplitSide == <<Point(0, 0), Point(5, 0), Point(10, 0), Point(10, 6), Point(0, 6)>>

SimplePolygons ==
    { Square, Triangle, Arrow, RightTriangle, LShape, SplitSide,
      Reverse(Square), Reverse(Triangle), Reverse(Arrow),
      Reverse(RightTriangle), Reverse(LShape), Reverse(SplitSide) }
\* no point, a single point, a segment
DegeneratePolygons == { <<>>, <<Point(0, 0)>>, <<Point(0, 0), Point(10, 0)>> }
PolygonPool == SimplePolygons \cup DegeneratePolygons
PointPool ==
    { Near(x, dx, y) : x \in (-1)..MaxCoord, dx \in {-1, 0, 1},
                       y \in (-1)..MaxCoord }

pgRest == <<gidVars, stVars, exVars, dcVars, rsVars, lyVars, rotVars,
           geoVars>>

PolygonInit ==
    /\ pg_point \in PointPool
    /\ pg_polygon \in PolygonPool
    /\ pg_pc = "convex"
    /\ pg_i = 0
    /\ pg_inside = FALSE
    /\ pg_convex = FALSE

\* is_convex(polygon)
IsConvexCall ==
    /\ pg_pc = "convex"
    /\ pg_convex' = is_convex(pg_polygon)
    /\ pg_pc' = "cast"
    /\ pg_i' = 1
    /\ UNCHANGED <<pg_point, pg_polygon, pg_inside, pgRest>>

\* lines 269-278: one iteration of the loop over the edges
PointInPolygonEdge ==
    /\ pg_pc = "cast"
    /\ pg_i <= Len(pg_polygon)
    /\ pg_inside' =
         IF Intersect(pg_point, pg_polygon[pg_i],
                      pg_polygon[Previous(pg_i, Len(pg_polygon))])
         THEN ~pg_inside ELSE pg_inside
    /\ pg_i' = pg_i + 1
    /\ UNCHANGED <<pg_point, pg_polygon, pg_pc, pg_convex, pgRest>>

\* line 280: return inside
PointInPolygonReturn ==
    /\ pg_pc = "cast"
    /\ pg_i > Len(pg_polygon)
    /\ pg_pc' = "done"
    /\ UNCHANGED <<pg_point, pg_polygon, pg_i, pg_inside, pg_convex, pgRest>>

InitPolygon ==
    /\ CoreIdle /\ DecoderIdle /\ ReshapeIdle /\ LayerIdle /\ RotationIdle
    /\ PolygonInit /\ GeoIdle
NextPolygon == IsConvexCall \/ PointInPolygonEdge \/ PointInPolygonReturn
SpecPolygon == InitPolygon /\ [][NextPolygon]_vars

(***************************************************************************)
(* Vocabulary of the claims on point_in_polygon and is_convex: the exact   *)
(* geometry of a point (x + dx * delta, y), delta > 0 infinitesimal        *)
(***************************************************************************)
Cast == pg_pc = "done"
\* x + dx*delta <= m and x + dx*delta >= m, for an integer m
AtMost(x, dx, m) == x < m \/ (x = m /\ dx <= 0)
AtLeast(x, dx, m) == x > m \/ (x = m /\ dx >= 0)

\* the point lies on the closed segment from p to q
OnEdge(point, p, q) ==
    /\ (q.x - p.x) * (point.y - p.y) = (q.y - p.y) * (point.x - p.x)
    /\ point.dx = 0 \/ q.y = p.y
    /\ AtLeast(point.x, point.dx, Min(p.x, q.x))
    /\ AtMost(point.x, point.dx, Max(p.x, q.x))
    /\ point.y >= Min(p.y, q.y)
    /\ point.y <= Max(p.y, q.y)

Edges(polygon) ==
    { <<polygon[i], polygon[Following(i, 1, Len(polygon))]>> :
        i \in DOMAIN polygon }
OnBoundary(point, polygon) ==
    \E e \in Edges(polygon) : OnEdge(point, e[1], e[2])

\* the vertical ray going up from the point meets the edge from p to q
\* (p taken as the end with the smaller abscissa; half-open in x)
RayUpMeets(point, p, q) ==
    LET run == q.x - p.x
        t == point.x - p.x
        lhs == (point.y - p.y) * run
        rhs == (q.y - p.y) * t
    IN  /\ AtLeast(point.x, point.dx, p.x) /\ ~AtLeast(point.x, point.dx, q.x)
        /\ \/ lhs < rhs
           \/ lhs = rhs /\ (q.y - p.y) * point.dx > 0
UpwardCrossings(point, polygon) ==
    { e \in Edges(polygon) :
        \/ e[1].x < e[2].x /\ RayUpMeets(point, e[1], e[2])
        \/ e[2].x < e[1].x /\ RayUpMeets(point, e[2], e[1]) }
\* off the boundary, and an odd number of edges above the point
StrictlyInside(point, polygon) ==
    /\ ~OnBoundary(point, polygon)
    /\ Cardinality(UpwardCrossings(point, polygon)) % 2 = 1
StrictlyOutside(point, polygon) ==
    /\ ~OnBoundary(point, polygon)
    /\ Cardinality(UpwardCrossings(point, polygon)) % 2 = 0
\* the point with integer coordinates next to which the point lies
Lattice(point) == Near(point.x, 0, point.y)

\* C18 as stated: point_in_polygon returns true for every point lying on an
\* edge or on a vertex of a simple polygon.
C18_AsStated ==
    (Cast /\ pg_polygon \in SimplePolygons
          /\ OnBoundary(pg_point, pg_polygon)) => pg_inside

\* C18, a boundary point found outside: the middle of the right side of the
\* square of the tests
C18_RightSideOutside ==
    /\ Cast
    /\ pg_polygon = Square
    /\ pg_point = Near(10, 0, 5)
    /\ OnBoundary(pg_point, pg_polygon)
    /\ ~pg_inside

\* C18, what the tests assert: the middle of the left side and the vertex
\* (0, 0) of the square are found inside.
C18_TestedBoundaryPointsInside ==
    (Cast /\ pg_polygon = Square
          /\ pg_point \in {Near(0, 0, 5), Near(0, 0, 0)}) => pg_inside

\* C19 as stated: for a simple polygon in either winding order every point
\* strictly inside is found inside and every point strictly outside is
\* found outside; no point is inside the empty polygon.
C19_AsStated ==
    /\ (Cast /\ pg_polygon \in SimplePolygons) =>
          /\ StrictlyInside(pg_point, pg_polygon) => pg_inside
          /\ StrictlyOutside(pg_point, pg_polygon) => ~pg_inside
    /\ (Cast /\ pg_polygon = <<>>) => ~pg_inside

\* C19 amended: the same for every point that is not next to the boundary
\* (in particular every point with integer coordinates off the boundary):
\* a point within the reach of the code's 1e-10 of an edge may be
\* classified as lying on the other side of it.
C19_ClassifiesAwayFromBoundary ==
    /\ (Cast /\ pg_polygon \in SimplePolygons
             /\ ~OnBoundary(Lattice(pg_point), pg_polygon)) =>
          /\ StrictlyInside(pg_point, pg_polygon) => pg_inside
          /\ StrictlyOutside(pg_point, pg_polygon) => ~pg_inside
          /\ StrictlyInside(pg_point, pg_polygon)
               \/ StrictlyOutside(pg_point, pg_polygon)
    /\ (Cast /\ pg_polygon = <<>>) => ~pg_inside

\* C19 witness: the point (5, 4) in the notch of the arrow, given clockwise,
\* is found outside
C19_Witness ==
    /\ Cast
    /\ pg_polygon = Reverse(Arrow)
    /\ pg_point = Near(5, 0, 4)
    /\ StrictlyOutside(pg_point, pg_polygon)
    /\ ~pg_inside

\* C19, a point strictly outside found inside: just left of the hypotenuse
\* of the right triangle
C19_NearEdgeMisclassified ==
    /\ Cast
    /\ pg_polygon = RightTriangle
    /\ pg_point = Near(5, -1, 5)
    /\ StrictlyOutside(pg_point, pg_polygon)
    /\ pg_inside

\* the cross product of a triple, as a determinant
Turn(p1, p2, p3) ==
    p1.x * (p2.y - p3.y) + p2.x * (p3.y - p1.y) + p3.x * (p1.y - p2.y)
Turns(polygon) ==
    { Turn(polygon[i], polygon[Following(i, 1, Len(polygon))],
           polygon[Following(i, 2, Len(polygon))]) : i \in DOMAIN polygon }
\* no two cross products of opposite signs
ConsistentSign(polygon) ==
    ~(\E a, b \in Turns(polygon) : a > 0 /\ b < 0)
ConvexTested == pg_pc \in {"cast", "done"}

\* C20 as stated: is_convex is true exactly when the cross products of the
\* cyclically consecutive triples have a consistent sign; it is true below
\* three points, for the square and the triangle, and false for the arrow.
C20_AsStated ==
    ConvexTested =>
        /\ pg_convex = ConsistentSign(pg_polygon)
        /\ Len(pg_polygon) < 3 => pg_convex
        /\ pg_polygon \in {Square, Triangle} => pg_convex
        /\ pg_polygon = Arrow => ~pg_convex

\* C20, a convex polygon found not convex: the rectangle with a vertex in
\* the middle of a side, counter-clockwise (its cross products are 0 and
\* positive)
C20_CollinearVertexNotConvex ==
    /\ ConvexTested
    /\ pg_polygon = SplitSide
    /\ ConsistentSign(pg_polygon)
    /\ ~pg_convex

\* C20, what the code computes: all cross products positive, or none
\* positive (zero counting with the negative ones); the named examples hold.
C20_AllPositiveOrNonePositive ==
    ConvexTested =>
        /\ pg_convex = (\/ \A a \in Turns(pg_polygon) : a > 0
                        \/ \A a \in Turns(pg_polygon) : a <= 0)
        /\ Len(pg_polygon) < 3 => pg_convex
        /\ pg_polygon \in {Square, Triangle} => pg_convex
        /\ pg_polygon = Arrow => ~pg_convex

(***************************************************************************)
(* is_convex and the winding order of the vertices                         *)
(***************************************************************************)
\* is_convex has returned for pg_polygon
ConvexityKnown == pg_pc # "convex"
\* the cross products that is_convex takes the sign of
Crosses(polygon) ==
    [i \in 1..Len(polygon) |->
        cross(polygon[i], polygon[Following(i, 1, Len(polygon))],
              polygon[Following(i, 2, Len(polygon))])]
NoZeroCross(polygon) == \A i \in DOMAIN polygon : Crosses(polygon)[i] # 0

\* C27 as stated: is_convex gives the same answer for a polygon and for the
\* polygon with its vertices in the reverse order, collinear consecutive
\* vertices included.
C27_AsStated ==
    ConvexityKnown => (pg_convex <=> is_convex(Reverse(pg_polygon)))

\* C27, the winding order changes the answer: the rectangle with a vertex in
\* the middle of its bottom side is found not convex, and convex when its
\* vertices are listed in the reverse order.
C27_WindingOrderChangesAnswer ==
    /\ ConvexityKnown
    /\ pg_polygon = SplitSide
    /\ ~pg_convex
    /\ is_convex(Reverse(pg_polygon))

\* C27, what the code guarantees: the answer is independent of the winding
\* order for the polygons none of whose cross products is zero.
C27_OrderFreeWithoutZeroCross ==
    (ConvexityKnown /\ NoZeroCross(pg_polygon)) =>
        (pg_convex <=> is_convex(Reverse(pg_polygon)))

(***************************************************************************)
(* utils.compute_adjusted_position                                         *)
(***************************************************************************)
MaxSize == 3
MaxTile == 3
Orientations == {"orthogonal", "isometric", "staggered", "hexagonal", "oblique"}
Rotations == {0, 45, 90, 180, 270}

\* lines 391-400 and 414-423: the offsets by rotation quadrant, then invert_y
AdjustByQuadrant(x, y, width, height, rotation, invert_y) ==
    LET new_x == IF rotation = 90 THEN x + height
                 ELSE IF rotation = 180 THEN x + width
                 ELSE x
        new_y == IF rotation = 180 THEN y + height
                 ELSE IF rotation = 270 THEN y + width
                 ELSE y
    IN  <<new_x, IF invert_y THEN new_y - height ELSE new_y>>

\* lines 403-411: half a tile back, half the height forth when rotated by a
\* quarter turn, then invert_y (// is the floor division, as \div is).  The
\* position and the sizes of the object are counted in 1 / unit of a pixel
\* (unit = 1 for int arguments), the tile sizes in pixels.
AdjustIsometric(unit, x, y, height, rotation, tilewidth, tileheight, invert_y) ==
    LET centred_x == x - unit * (tilewidth \div 2)
        centred_y == y - unit * (tileheight \div 2)
        bias == unit * ((height \div unit) \div 2)
        new_x == IF rotation \in {90, 270} THEN centred_x + bias
                 ELSE centred_x
        new_y == IF rotation \in {90, 270} THEN centred_y + bias
                 ELSE centred_y
    IN  <<new_x, IF invert_y THEN new_y - height ELSE new_y>>

\* lines 388-425, in 1 / unit of a pixel
AdjustedPosition(unit, x, y, width, height, orientation, rotation, tilewidth, tileheight, invert_y) ==
    IF orientation = "orthogonal"
    THEN AdjustByQuadrant(x, y, width, height, rotation, invert_y)
    ELSE IF orientation = "isometric"
    THEN AdjustIsometric(unit, x, y, height, rotation, tilewidth, tileheight,
                         invert_y)
    ELSE IF orientation \in {"staggered", "hexagonal"}
    THEN AdjustByQuadrant(x, y, width, height, rotation, invert_y)
    ELSE <<x, y>>

\* a variant that leaves the staggered and hexagonal maps unadjusted
compute_adjusted_position_orthogonal_only(x, y, width, height, orientation, rotation, tilewidth, tileheight, invert_y) ==
    IF orientation = "orthogonal"
    THEN AdjustByQuadrant(x, y, width, height, rotation, invert_y)
    ELSE IF orientation = "isometric"
    THEN AdjustIsometric(1, x, y, height, rotation, tilewidth, tileheight,
                         invert_y)
    ELSE <<x, y>>

\* lines 388-425
compute_adjusted_position(x, y, width, height, orientation, rotation, tilewidth, tileheight, invert_y) ==
    AdjustedPosition(1, x, y, width, height, orientation, rotation,
                     tilewidth, tileheight, invert_y)

AdjustArgs ==
    [x : {-3, 2}, y : {-3, 2}, width : 0..MaxSize, height : 0..MaxSize,
     orientation : Orientations, rotation : Rotations,
     tilewidth : 1..MaxTile, tileheight : 1..MaxTile, invert_y : BOOLEAN]

adRest == <<gidVars, stVars, exVars, dcVars, rsVars, lyVars, rotVars, pgVars,
            tpVars, obVars>>

AdjustInit ==
    /\ ad_args \in AdjustArgs
    /\ ad_pc = "ready"
    /\ ad_ret = <<>>

ComputeAdjustedPosition ==
    /\ ad_pc = "ready"
    /\ ad_ret' = compute_adjusted_position(
                     ad_args.x, ad_args.y, ad_args.width, ad_args.height,
                     ad_args.orientation, ad_args.rotation,
                     ad_args.tilewidth, ad_args.tileheight, ad_args.invert_y)
    /\ ad_pc' = "done"
    /\ UNCHANGED <<ad_args, adRest>>

InitAdjust ==
    /\ CoreIdle /\ DecoderIdle /\ ReshapeIdle /\ LayerIdle /\ RotationIdle
    /\ PolygonIdle /\ TilePosIdle /\ AdjustInit /\ ObjectIdle
NextAdjust == ComputeAdjustedPosition
SpecAdjust == InitAdjust /\ [][NextAdjust]_vars

\* the result the claim gives for the three orientations it groups together
C26_Shifted(a) ==
    <<a.x + (IF a.rotation = 90 THEN a.height
             ELSE IF a.rotation = 180 THEN a.width ELSE 0),
      a.y + (IF a.rotation = 180 THEN a.height
             ELSE IF a.rotation = 270 THEN a.width ELSE 0)
          - (IF a.invert_y THEN a.height ELSE 0)>>
C26_Recentred(a) ==
    LET bias == IF a.rotation \in {90, 270} THEN a.height \div 2 ELSE 0
    IN  <<a.x - (a.tilewidth \div 2) + bias,
          a.y - (a.tileheight \div 2) + bias
              - (IF a.invert_y THEN a.height ELSE 0)>>

\* C26: compute_adjusted_position gives the same position for orthogonal,
\* staggered and hexagonal maps (x plus height at 90 degrees or width at 180,
\* y plus height at 180 or width at 270, minus height under invert_y); for
\* isometric maps it moves back by half a tile, forth by half the height at
\* 90 and 270 degrees, minus height under invert_y; for any other orientation
\* it returns (x, y) unchanged.
C26_AdjustedPosition ==
    ad_pc = "done" =>
        ad_ret = IF ad_args.orientation
                        \in {"orthogonal", "staggered", "hexagonal"}
                 THEN C26_Shifted(ad_args)
                 ELSE IF ad_args.orientation = "isometric"
                 THEN C26_Recentred(ad_args)
                 ELSE <<ad_args.x, ad_args.y>>

\* C26, its cases all happen: a hexagonal map at 270 degrees with invert_y
\* and distinct width and height
C26_Witness ==
    /\ ad_pc = "done"
    /\ ad_args.orientation = "hexagonal"
    /\ ad_args.rotation = 270
    /\ ad_args.invert_y
    /\ ad_args.width = 3 /\ ad_args.height = 1
    /\ ad_ret = <<ad_args.x, ad_args.y + 2>>

(***************************************************************************)
(* utils.pixels_to_tile_pos.  The pixel position and the tile sizes are    *)
(* integers; the code divides them as IEEE-754 doubles (53-bit mantissa,   *)
(* round to nearest) and takes math.floor.  A single quotient a / b of     *)
(* small integers that is not an integer lies at least 1 / b away from     *)
(* every integer, far more than its rounding error, so its floor is the    *)
(* floor of the exact quotient.  The isometric branch adds two rounded     *)
(* quotients before the floor, and there the rounding errors decide the    *)
(* result whenever the exact sum is an even integer: they are computed     *)
(* here digit by digit.                                                    *)
(***************************************************************************)
\* e such that 2^e <= a / b < 2^(e+1), as <<e, a', b'>> with a'/b' = a/b/2^e,
\* for a > 0 and b > 0
RECURSIVE Normalise(_, _, _)
Normalise(a, b, e) ==
    IF a >= 2 * b THEN Normalise(a, 2 * b, e + 1)
    ELSE IF a < b THEN Normalise(2 * a, b, e - 1)
    ELSE e
Exponent(a, b) == Normalise(a, b, 0)

\* (a * 2^k) mod b, doubling k times
RECURSIVE Pow2Mod(_, _, _)
Pow2Mod(a, k, b) == IF k = 0 THEN a % b ELSE Pow2Mod((2 * a) % b, k - 1, b)

Abs(n) == IF n < 0 THEN -n ELSE n

\* the rounding error of the double a / b (b > 0, a # 0), as <<k, e>>:
\* fl(a / b) = a / b + (k / b) * 2^(e - 52), where 2^e <= |a / b| < 2^(e+1)
\* and the 53-bit mantissa is the nearest integer to |a / b| * 2^(52 - e)
RoundingError(a, b) ==
    IF a % b = 0 THEN <<0, 0>>
    ELSE LET e == Exponent(Abs(a), b)
             rem == Pow2Mod(Abs(a), 52 - e, b)
             k == IF 2 * rem < b THEN -rem ELSE b - rem
         IN  <<IF a > 0 THEN k ELSE -k, e>>

IsPowerOfTwo(n) == \E e \in 0..30 : n = 2^e

\* math.floor((a / b + c / d) / 2) in doubles, for b > 0 and d > 0.  Unless
\* the exact sum is an even integer 2n the floor is the exact one.  When it
\* is, the sum of the two doubles is 2n + err with
\*     err = (ka / b) * 2^(ea - 52) + (kc / d) * 2^(ec - 52),
\* which rounds below 2n exactly when err is under minus half the gap
\* between 2n and the double before it, 2^(e2 - 52) (half of that above a
\* positive power of two); the comparison is scaled by b * d * 2^(52 + 12).
FloorHalfSum(a, b, c, d) ==
    LET num == a * d + c * b
        den == b * d
    IN  IF num % (2 * den) # 0 THEN num \div (2 * den)
        ELSE LET n == num \div (2 * den)
                 ra == RoundingError(a, b)
                 rc == RoundingError(c, d)
                 e2 == Exponent(Abs(2 * n), 1)
                 gap == IF n > 0 /\ IsPowerOfTwo(2 * n)
                        THEN 2^(e2 - 1 + 12) ELSE 2^(e2 + 12)
                 err == ra[1] * d * 2^(ra[2] + 12) + rc[1] * b * 2^(rc[2] + 12)
             IN  IF n = 0 THEN 0
                 ELSE IF 2 * err < -(gap * den) THEN n - 1 ELSE n

\* lines 321-328, 333-340, 347-354, 359-366: twice the offset, which is half
\* of `size` when the parity of `index` is the one staggerindex names
TwiceOffset(staggerindex, index, size) ==
    IF \/ (staggerindex = "odd" /\ index % 2 = 1)
       \/ (staggerindex = "even" /\ index % 2 = 0)
    THEN size ELSE 0

\* lines 319-342 and 345-368, with the stride a fraction sn / sd of a tile:
\* tileheight / 2 and tilewidth / 2, tileheight * 0.75 and tilewidth * 0.75
\* are exact doubles
Staggered(x, y, tilewidth, tileheight, staggeraxis, staggerindex, sn, sd) ==
    IF staggeraxis = "y"
    THEN LET row == (y * sd) \div (tileheight * sn)
             col == (2 * x - TwiceOffset(staggerindex, row, tilewidth))
                        \div (2 * tilewidth)
         IN  <<col, row>>
    ELSE LET col == (x * sd) \div (tilewidth * sn)
             row == (2 * y - TwiceOffset(staggerindex, col, tileheight))
                        \div (2 * tileheight)
         IN  <<col, row>>

\* lines 308-370
pixels_to_tile_pos(position, orientation, tilewidth, tileheight, staggeraxis, staggerindex) ==
    LET x == position[1]
        y == position[2]
    IN  IF orientation = "orthogonal"
        THEN <<x \div tilewidth, y \div tileheight>>
        ELSE IF orientation = "isometric"
        THEN <<FloorHalfSum(x, tilewidth, y, tileheight),
               FloorHalfSum(y, tileheight, -x, tilewidth)>>
        ELSE IF orientation = "staggered"
        THEN Staggered(x, y, tilewidth, tileheight, staggeraxis,
                       staggerindex, 1, 2)
        ELSE IF orientation = "hexagonal"
        THEN Staggered(x, y, tilewidth, tileheight, staggeraxis,
                       staggerindex, 3, 4)
        ELSE <<x \div tilewidth, y \div tileheight>>

TileMaps ==
    [orientation : Orientations, tilewidth : 1..MaxTile,
     tileheight : 1..MaxTile, staggeraxis : {"x", "y", "None"},
     staggerindex : {"odd", "even", "None"}]
Pixels == (-MaxCoord)..MaxCoord

tpRest == <<gidVars, stVars, exVars, dcVars, rsVars, lyVars, rotVars, pgVars,
            adVars, obVars>>

TilePosInit ==
    /\ tp_map \in TileMaps
    /\ tp_position = <<>>
    /\ tp_pc = "ready"
    /\ tp_ret = <<>>

PixelsToTilePos(position) ==
    /\ tp_pc = "ready"
    /\ tp_position' = position
    /\ tp_ret' = pixels_to_tile_pos(position, tp_map.orientation,
                                    tp_map.tilewidth, tp_map.tileheight,
                                    tp_map.staggeraxis, tp_map.staggerindex)
    /\ tp_pc' = "done"
    /\ UNCHANGED <<tp_map, tpRest>>

InitTilePos ==
    /\ CoreIdle /\ DecoderIdle /\ ReshapeIdle /\ LayerIdle /\ RotationIdle
    /\ PolygonIdle /\ TilePosInit /\ AdjustIdle /\ ObjectIdle
NextTilePos == \E x \in Pixels, y \in Pixels : PixelsToTilePos(<<x, y>>)
SpecTilePos == InitTilePos /\ [][NextTilePos]_vars

(***************************************************************************)
(* The tile position as the specification gives it, in exact arithmetic    *)
(***************************************************************************)
\* floor(n / d) for d > 0
Floor(n, d) == n \div d
\* staggered and hexagonal: the stride is sn / sd of the tile size along the
\* stagger axis; `along` and `across` are the coordinates and tile sizes
\* along and across that axis, as <<coordinate, tile size>>
ClaimedStagger(along, across, staggerindex, sn, sd) ==
    LET index == Floor(along[1] * sd, along[2] * sn)
        matches == \/ (staggerindex = "odd" /\ index % 2 = 1)
                   \/ (staggerindex = "even" /\ index % 2 = 0)
        \* (across - off) / size with off = size / 2 or 0
        other == IF matches
                 THEN Floor(2 * across[1] - across[2], 2 * across[2])
                 ELSE Floor(across[1], across[2])
    IN  <<index, other>>
ClaimedTilePos(m, position) ==
    LET x == position[1]
        y == position[2]
        tw == m.tilewidth
        th == m.tileheight
        sn == IF m.orientation = "staggered" THEN 1 ELSE 3
        sd == IF m.orientation = "staggered" THEN 2 ELSE 4
    IN  IF m.orientation = "isometric"
        THEN <<Floor(x * th + y * tw, 2 * tw * th),
               Floor(y * tw - x * th, 2 * tw * th)>>
        ELSE IF m.orientation \in {"staggered", "hexagonal"}
        THEN IF m.staggeraxis = "y"
             THEN LET r == ClaimedStagger(<<y, th>>, <<x, tw>>,
                                          m.staggerindex, sn, sd)
                  IN  <<r[2], r[1]>>
             ELSE ClaimedStagger(<<x, tw>>, <<y, th>>, m.staggerindex, sn, sd)
        ELSE <<Floor(x, tw), Floor(y, th)>>

\* C25 as stated: pixels_to_tile_pos returns the floor of the exact
\* orthogonal, isometric, staggered or hexagonal formula for every integer
\* pixel position, negative ones included, an unrecognised orientation
\* counting as orthogonal and a staggeraxis other than "y" as "x".
C25_AsStated ==
    tp_pc = "done" => tp_ret = ClaimedTilePos(tp_map, tp_position)

\* C25, a pixel on an isometric tile boundary placed one tile too low: with
\* 3 x 3 tiles the pixel (5, 11) has (y/th - x/tw)/2 = 1 exactly and is
\* given the row 0.
C25_IsometricBoundaryMisplaced ==
    /\ tp_pc = "done"
    /\ tp_map.orientation = "isometric"
    /\ tp_map.tilewidth = 3 /\ tp_map.tileheight = 3
    /\ tp_position = <<5, 11>>
    /\ ClaimedTilePos(tp_map, tp_position) = <<2, 1>>
    /\ tp_ret = <<2, 0>>

\* C25, what the code guarantees: the stated result for every orientation
\* but isometric, and for isometric maps each index is the stated one or the
\* one below it, the latter only when the exact half sum is an integer.
C25_ExactUnlessIsometricBoundary ==
    tp_pc = "done" =>
        LET claimed == ClaimedTilePos(tp_map, tp_position)
            den == 2 * tp_map.tilewidth * tp_map.tileheight
            sum == tp_position[1] * tp_map.tileheight
                       + tp_position[2] * tp_map.tilewidth
            diff == tp_position[2] * tp_map.tilewidth
                       - tp_position[1] * tp_map.tileheight
        IN  IF tp_map.orientation # "isometric" THEN tp_ret = claimed
            ELSE /\ tp_ret[1] \in {claimed[1], claimed[1] - 1}
                 /\ tp_ret[2] \in {claimed[2], claimed[2] - 1}
                 /\ sum % den # 0 => tp_ret[1] = claimed[1]
                 /\ diff % den # 0 => tp_ret[2] = claimed[2]

(***************************************************************************)
(* TiledObject.  The attributes x, y, width and height and the coordinates *)
(* of the points are floats: the model counts them in half pixels, so that *)
(* 3 stands for 1.5.  A coordinate that went through rotate is a double    *)
(* next to such a number, the rounding that the doubles                    *)
(* sin(radians(angle)) and cos(radians(angle)) leave behind.  It is kept   *)
(* as [v, r, p, q] and stands for                                          *)
(*     v / 2 + r * 2^-70 + p * 2^-89 + q * 2^-107                          *)
(* where r, p and q have the sign of the residue, |p| < 2^19, |q| < 2^18.  *)
(* Next to v # 0 the double is a multiple of 2^-54 and p = q = 0.  The     *)
(* arithmetic holds for differences below 2^12 half pixels.                *)
(***************************************************************************)
Flt(v, r) == [v |-> v, r |-> r, p |-> 0, q |-> 0]
Exact(v) == Flt(v, 0)
\* a double next to zero
Tiny(r, p, q) == [v |-> 0, r |-> r, p |-> p, q |-> q]
FltLess(a, b) ==
    \/ a.v < b.v
    \/ a.v = b.v /\ a.r < b.r
    \/ a.v = b.v /\ a.r = b.r /\ a.p < b.p
    \/ a.v = b.v /\ a.r = b.r /\ a.p = b.p /\ a.q < b.q
MinFlt(fs) == CHOOSE a \in fs : \A b \in fs : ~FltLess(b, a)
MaxFlt(fs) == CHOOSE a \in fs : \A b \in fs : ~FltLess(a, b)

\* int(): truncation toward zero, in whole pixels
Truncate(f) ==
    IF f.v % 2 = 1 THEN IF f.v > 0 THEN (f.v - 1) \div 2 ELSE (f.v + 1) \div 2
    ELSE LET n == f.v \div 2
         IN  IF n > 0 /\ f.r < 0 THEN n - 1
             ELSE IF n < 0 /\ f.r > 0 THEN n + 1
             ELSE n
\* math.floor, for comparison (a residue has r # 0)
FloorFlt(f) ==
    IF f.v % 2 = 0 /\ f.r < 0 THEN (f.v \div 2) - 1 ELSE f.v \div 2

\* lines 167-168: sin_t and cos_t for the quarter turns, as <<cos, sin>>.
\* Each is -1, 0 or 1 (TrigMain) plus a tiny double (TrigTiny has its sign):
\*     cos(radians(90))  =  0x1.1a62633145c07p-54 =  6.123233995736766e-17
\*     sin(radians(180)) =  0x1.1a62633145c07p-53 =  1.2246467991473532e-16
\*     cos(radians(270)) = -0x1.a79394c9e8a0ap-53 = -1.8369701987210297e-16
TrigMain(angle) ==
    CASE angle = 0 -> <<1, 0>>
      [] angle = 90 -> <<0, 1>>
      [] angle = 180 -> <<-1, 0>>
      [] angle = 270 -> <<0, -1>>
TrigTiny(angle) ==
    CASE angle = 0 -> <<0, 0>>
      [] angle = 90 -> <<1, 0>>
      [] angle = 180 -> <<0, 1>>
      [] angle = 270 -> <<-1, 0>>
\* the magnitude of the tiny double times half a pixel, in units of 2^-107,
\* as the limbs <<h, p, q>> of h * 2^37 + p * 2^18 + q: the 53-bit mantissa
\* 0x11a62633145c07 (90), twice that (180), twice 0x1a79394c9e8a0a (270)
Mantissa(angle) ==
    CASE angle = 0 -> <<0, 0, 0>>
      [] angle = 90 -> <<36145, 101573, 23559>>
      [] angle = 180 -> <<72290, 203146, 47118>>
      [] angle = 270 -> <<108435, 304719, 70676>>

\* limbs again after an operation: q below 2^18, p below 2^19
Carry(h, p, q) ==
    <<h + (p + q \div 2^18) \div 2^19, (p + q \div 2^18) % 2^19, q % 2^18>>
\* the limbs b with the last `drop` bits rounded away, ties to even
RoundBits(b, drop) ==
    LET kept == b[3] \div 2^drop
        rem == b[3] % 2^drop
        up == 2 * rem > 2^drop \/ (2 * rem = 2^drop /\ kept % 2 = 1)
    IN  Carry(b[1], b[2], (IF up THEN kept + 1 ELSE kept) * 2^drop)
\* the double nearest to the limbs b: 53 bits are kept, 37 + 16 of them in
\* the limbs p and q and in 16 bits of h
Round53(b) ==
    IF Exponent(b[1], 1) <= 15 THEN b ELSE RoundBits(b, Exponent(b[1], 1) - 15)
\* line 171, a product like cos_t * (point.x - origin.x) for k half pixels,
\* k > 0: the magnitude of the double
Product(mantissa, k) ==
    Round53(Carry(mantissa[1] * k, mantissa[2] * k, mantissa[3] * k))

\* the double nearest to s half pixels (s # 0) plus a residue of magnitude
\* mag * 2^-70, or just above it (sticky): the residue rounded to a multiple
\* of the gap between doubles at s, which is 2^(e - 52) for
\* 2^e <= |s| / 2 < 2^(e + 1), and half of that below a power of two; ties
\* go to the even multiple
RoundTo(s, mag, sticky, negative) ==
    IF mag = 0 /\ ~sticky THEN 0
    ELSE LET e == Exponent(Abs(s), 2)
             towardZero == negative = (s > 0)
             gap == IF towardZero /\ IsPowerOfTwo(Abs(s))
                    THEN 2^(e + 17) ELSE 2^(e + 18)
             kept == mag \div gap
             rem == mag % gap
             up == \/ 2 * rem > gap
                   \/ 2 * rem = gap /\ (sticky \/ kept % 2 = 1)
             rounded == (IF up THEN kept + 1 ELSE kept) * gap
         IN  IF negative THEN -rounded ELSE rounded
RoundResidue(s, r) == RoundTo(s, Abs(r), FALSE, r < 0)

\* origin + (main + tiny) in doubles, where tiny is the product t with its
\* sign: the inner sum first, then the outer
FloatSum(origin, main, t, negative) ==
    IF main # 0
    THEN IF origin + main = 0
         THEN Flt(0, RoundTo(main, t[1], t[2] # 0 \/ t[3] # 0, negative))
         ELSE Flt(origin + main,
                  RoundResidue(origin + main,
                               RoundTo(main, t[1], t[2] # 0 \/ t[3] # 0,
                                       negative)))
    ELSE IF origin # 0
    THEN Flt(origin, RoundTo(origin, t[1], t[2] # 0 \/ t[3] # 0, negative))
    ELSE IF negative THEN Tiny(-t[1], -t[2], -t[3])
    ELSE Tiny(t[1], t[2], t[3])
\* origin + (main + tiny) for the tiny double times k half pixels
FloatAdd(origin, main, mantissa, k) ==
    IF k = 0 THEN Exact(origin + main)
    ELSE FloatSum(origin, main, Product(mantissa, Abs(k)), k < 0)

\* lines 161-174
rotate(points, origin, angle) ==
    LET cm == TrigMain(angle)[1]
        sm == TrigMain(angle)[2]
        ct == TrigTiny(angle)[1]
        st == TrigTiny(angle)[2]
    IN  [i \in DOMAIN points |->
            LET dx == points[i].x - origin.x
                dy == points[i].y - origin.y
            IN  Point(FloatAdd(origin.x, cm * dx - sm * dy, Mantissa(angle),
                               ct * dx - st * dy),
                      FloatAdd(origin.y, sm * dx + cm * dy, Mantissa(angle),
                               st * dx + ct * dy))]
\* "0,0 4,0 4,3"
TriangleText == <<"0", ",", "0", " ", "4", ",", "0", " ", "4", ",", "3">>
\* "-1.5,0 2,0.5 2,-3"
FractionText == <<"-", "1", ".", "5", ",", "0", " ", "2", ",", "0", ".", "5", " ", "2", ",", "-", "3">>
\* "0,0 2,2 4,0 2,4"
ArrowText == <<"0", ",", "0", " ", "2", ",", "2", " ", "4", ",", "0", " ", "2", ",", "4">>
\* "4,3 4,0 4,0 0,0"
RepeatText == <<"4", ",", "3", " ", "4", ",", "0", " ", "4", ",", "0", " ", "0", ",", "0">>
\* " 0,0  4,0 4,3 "
SpacedText == <<" ", "0", ",", "0", " ", " ", "4", ",", "0", " ", "4", ",", "3", " ">>
\* "1,1"
SinglePointText == <<"1", ",", "1">>
\* "0,0 4,x"
BadNumberText == <<"0", ",", "0", " ", "4", ",", "x">>
\* "0,0 4 4,3"
BadPairText == <<"0", ",", "0", " ", "4", " ", "4", ",", "3">>
\* "0,0,1 4,0"
LongPairText == <<"0", ",", "0", ",", "1", " ", "4", ",", "0">>
EmptyText == <<>>
\* "1e1,0 0,5e-1 1_0,2E0"
ExponentText == <<"1", "e", "1", ",", "0", " ", "0", ",", "5", "e", "-", "1", " ", "1", "_", "0", ",", "2", "E", "0">>
\* "0,0\f4,0\x1c4,3" and a no-break space at the end
FormFeedText == <<"0", ",", "0", "\f", "4", ",", "0", "", "4", ",", "3", " ">>
\* "0.25,0 1,inf"
QuarterText == <<"0", ".", "2", "5", ",", "0", " ", "1", ",", "i", "n", "f">>

(***************************************************************************)
(* shape.parse_shape_data and TiledObject.parse_xml                        *)
(***************************************************************************)
RECURSIVE Words(_)
\* str.split() without a separator: the runs of non-blank characters
Words(s) ==
    IF \A i \in DOMAIN s : s[i] \in Whitespace THEN <<>>
    ELSE LET first == CHOOSE i \in DOMAIN s :
                         s[i] \notin Whitespace
                         /\ \A j \in 1..(i - 1) : s[j] \in Whitespace
             rest == SubSeq(s, first, Len(s))
             stop == IF \A i \in DOMAIN rest : rest[i] \notin Whitespace
                     THEN Len(rest) + 1
                     ELSE CHOOSE i \in DOMAIN rest :
                              rest[i] \in Whitespace
                              /\ \A j \in 1..(i - 1) : rest[j] \notin Whitespace
         IN  <<SubSeq(rest, 1, stop - 1)>>
                 \o Words(SubSeq(rest, stop, Len(rest)))

RECURSIVE Decimal(_, _)
\* the value of a run of digits, appended to acc
Decimal(body, acc) ==
    IF body = <<>> THEN acc
    ELSE Decimal(Tail(body), 10 * acc + DigitValue(Head(body)))

\* digitpart of the grammar of float(): digits with single underscores
\* between them
DigitPart(body) ==
    /\ body # <<>>
    /\ IsDigit(body[1])
    /\ IsDigit(body[Len(body)])
    /\ \A i \in DOMAIN body : IsDigit(body[i]) \/ body[i] = "_"
    /\ \A i \in 1..(Len(body) - 1) : ~(body[i] = "_" /\ body[i + 1] = "_")
\* the digits of a digitpart
DigitsOf(body) == SelectSeq(body, IsDigit)
RECURSIVE WithoutLeadingZeros(_)
WithoutLeadingZeros(digits) ==
    IF digits # <<>> /\ Head(digits) = "0"
    THEN WithoutLeadingZeros(Tail(digits)) ELSE digits
RECURSIVE TrailingZeros(_)
TrailingZeros(digits) ==
    IF digits # <<>> /\ digits[Len(digits)] = "0"
    THEN 1 + TrailingZeros(SubSeq(digits, 1, Len(digits) - 1)) ELSE 0
\* str.lower() on the letters of inf, infinity and nan
Lower(c) ==
    CASE c = "I" -> "i" [] c = "N" -> "n" [] c = "F" -> "f"
      [] c = "T" -> "t" [] c = "Y" -> "y" [] c = "A" -> "a"
      [] OTHER -> c

\* the longest decimal that is counted: MaxDigits digits before the point
MaxDigits == 6
\* A float is counted in half pixels (grid, val) when its decimal is a whole
\* number of half pixels of at most MaxDigits digits, which the double holds
\* exactly.  Any other float (a fraction such as 0.25, a longer decimal, an
\* exponent of four digits, inf, nan) is a double that the model does not
\* follow: it is ok, not grid.
FloatFailed == [ok |-> FALSE, grid |-> FALSE, val |-> 0]
Uncounted == [ok |-> TRUE, grid |-> FALSE, val |-> 0]
Counted(negative, magnitude) ==
    [ok |-> TRUE, grid |-> TRUE,
     val |-> IF negative THEN -magnitude ELSE magnitude]
\* the float of the digits d (no leading zero, at least one digit) times
\* 10^(exponent - places), in half pixels
Scaled(negative, d, tens) ==
    LET kept == SubSeq(d, 1, Len(d) - TrailingZeros(d))
        k == tens + TrailingZeros(d)
    IN  IF k >= 0 /\ Len(kept) + k <= MaxDigits
        THEN Counted(negative, 2 * Decimal(kept, 0) * 10^k)
        ELSE IF k = -1 /\ kept[Len(kept)] = "5" /\ Len(kept) <= MaxDigits + 1
        THEN Counted(negative, Decimal(kept, 0) \div 5)
        ELSE Uncounted
\* the float of digits with `places` of them after the point and the
\* exponent given by its sign and digits
FloatValue(negative, digits, places, down, exponent) ==
    IF WithoutLeadingZeros(digits) = <<>> THEN Counted(FALSE, 0)
    ELSE IF Len(WithoutLeadingZeros(exponent)) > 3 THEN Uncounted
    ELSE Scaled(negative, WithoutLeadingZeros(digits),
                (IF down THEN -Decimal(exponent, 0) ELSE Decimal(exponent, 0))
                    - places)
\* a number of the grammar of float(): digitparts around an optional point
\* (`pointed`: at most one), at least one of them, and after a mark e or E an
\* exponent, a digitpart
FloatNumber(negative, whole, fraction, pointed, marked, down, exponent) ==
    IF /\ pointed
       /\ whole # <<>> \/ fraction # <<>>
       /\ whole = <<>> \/ DigitPart(whole)
       /\ fraction = <<>> \/ DigitPart(fraction)
       /\ ~marked \/ DigitPart(exponent)
    THEN FloatValue(negative, DigitsOf(whole) \o DigitsOf(fraction),
                    Len(DigitsOf(fraction)), down, DigitsOf(exponent))
    ELSE FloatFailed
\* the parts of the number around the point, and the exponent `tail` without
\* its sign
FloatParts(negative, parts, marked, tail) ==
    FloatNumber(negative, parts[1],
                IF Len(parts) > 1 THEN parts[2] ELSE <<>>, Len(parts) <= 2,
                marked, tail # <<>> /\ Head(tail) = "-",
                IF tail # <<>> /\ Head(tail) \in {"+", "-"}
                THEN Tail(tail) ELSE tail)
\* the place of the first e or E of the body, its length plus one without
FirstMark(body) ==
    LET marks == { i \in DOMAIN body : body[i] \in {"e", "E"} }
    IN  IF marks = {} THEN Len(body) + 1
        ELSE CHOOSE i \in marks : \A j \in marks : i <= j
\* the body after the sign: inf, infinity or nan in any case, or a number
\* with an exponent after its first e or E
FloatBody(negative, body, mark) ==
    IF [i \in DOMAIN body |-> Lower(body[i])]
           \in {<<"i", "n", "f">>, <<"n", "a", "n">>,
                <<"i", "n", "f", "i", "n", "i", "t", "y">>}
    THEN Uncounted
    ELSE FloatParts(negative, Split(SubSeq(body, 1, mark - 1), "."),
                    mark <= Len(body), SubSeq(body, mark + 1, Len(body)))
\* the text without the blanks around it: an optional sign, then the body
FloatSigned(t) ==
    IF t # <<>> /\ Head(t) \in {"+", "-"}
    THEN FloatBody(Head(t) = "-", Tail(t), FirstMark(Tail(t)))
    ELSE FloatBody(FALSE, t, FirstMark(t))
\* float(s) for a str: surrounding blanks, an optional sign, then inf,
\* infinity or nan in any case, or a number: digitparts around an optional
\* point, at least one of them, and an optional exponent (e or E, an optional
\* sign, a digitpart).  Anything else is a ValueError.
ParseFloat(s) == FloatSigned(Trim(s, NumberBlanks))

\* the floats of the components: not ok (a ValueError) when a component is
\* no number, not grid when one is not counted
PairsOf(floats) ==
    IF \E i \in DOMAIN floats : ~floats[i][1].ok \/ ~floats[i][2].ok
    THEN [ok |-> FALSE, grid |-> FALSE, pairs |-> <<>>]
    ELSE IF \E i \in DOMAIN floats : ~floats[i][1].grid \/ ~floats[i][2].grid
    THEN [ok |-> TRUE, grid |-> FALSE, pairs |-> <<>>]
    ELSE [ok |-> TRUE, grid |-> TRUE,
          pairs |-> [i \in DOMAIN floats |->
                        <<floats[i][1].val, floats[i][2].val>>]]
\* the words split at the commas: not ok (a ValueError) when a word has not
\* exactly two components
Components(pairs) ==
    IF \E i \in DOMAIN pairs : Len(pairs[i]) # 2
    THEN [ok |-> FALSE, grid |-> FALSE, pairs |-> <<>>]
    ELSE PairsOf([i \in DOMAIN pairs |->
                     <<ParseFloat(pairs[i][1]), ParseFloat(pairs[i][2])>>])
\* shape.py lines 44-48, read_points: the pairs as <<x, y>> in half pixels
read_points(text) ==
    Components([i \in DOMAIN Words(text) |-> Split(Words(text)[i], ",")])

\* an <object> node: its attributes, already cast by _set_properties, and
\* its child elements in document order.  `absent` names the attributes
\* among x, y, width, height and rotation that the node does not carry (a
\* node without a gid has the gid 0).  `template` is what
\* parent._load_template returns for the template attribute, as a sequence:
\* empty when the node has no template or no object is loaded for it.
Node(x, y, width, height, rotation, gid, children) ==
    [x |-> x, y |-> y, width |-> width, height |-> height,
     rotation |-> rotation, gid |-> gid, children |-> children,
     absent |-> {}, template |-> <<>>]
\* a child element: its tag, its points attribute and its pixelsize
\* attribute, "16" standing for a child without one (line 83 reads the int 16)
Child(tag, points) ==
    [tag |-> tag, points |-> points, pixelsize |-> <<"1", "6">>]
\* a <text> child with a pixelsize attribute
TextChild(pixelsize) ==
    [tag |-> "text", points |-> <<>>, pixelsize |-> pixelsize]
\* a template object: the TiledObject and the node it was built from
Template(obj, node) == [obj |-> obj, node |-> node]
\* a node that carries the attributes of `node` but those of `absent`, and a
\* template attribute for which the template is loaded
FromTemplate(node, absent, template) ==
    [node EXCEPT !.absent = absent, !.template = <<template>>]
\* node.find(tag) is not None
Has(node, tag) == \E i \in DOMAIN node.children : node.children[i].tag = tag
\* node.find(tag): the first child with that tag
Find(node, tag) ==
    node.children[CHOOSE i \in DOMAIN node.children :
                      /\ node.children[i].tag = tag
                      /\ \A j \in 1..(i - 1) : node.children[j].tag # tag]

\* object.py lines 65-78: the attributes before parse_xml; there is no
\* points attribute yet
Defaults ==
    [object_type |-> "rectangle", x |-> 0, y |-> 0, width |-> 0,
     height |-> 0, rotation |-> 0, gid |-> G(0), closed |-> TRUE,
     has_points |-> FALSE, points |-> <<>>]

\* element._set_properties: every attribute of the node becomes an attribute
\* of the object, cast by its type (float for x, y, width, height and
\* rotation, int for gid)
SetProperties(self, node) ==
    [self EXCEPT
        !.x = IF "x" \in node.absent THEN self.x ELSE node.x,
        !.y = IF "y" \in node.absent THEN self.y ELSE node.y,
        !.width = IF "width" \in node.absent THEN self.width ELSE node.width,
        !.height = IF "height" \in node.absent THEN self.height
                   ELSE node.height,
        !.rotation = IF "rotation" \in node.absent THEN self.rotation
                     ELSE node.rotation,
        !.gid = node.gid]

\* utils.py lines 225-234
generate_rectangle_points(x, y, width, height) ==
    <<Point(x, y), Point(x + width, y), Point(x + width, y + height),
      Point(x, y + height)>>

\* utils.py lines 237-260: the 16 points are sines and cosines of multiples
\* of pi / 8; the model keeps the arguments of the call in their place.
\* Their extreme abscissas are cx - rx and cx + rx (theta = pi and 0) and
\* their extreme ordinates cy - ry and cy + ry, all exact.
generate_ellipse_points(x, y, width, height) ==
    [segments |-> 16, x |-> x, y |-> y, width |-> width, height |-> height]

ShapeTags == <<"polygon", "polyline", "ellipse", "point", "text">>
\* the first tag of shape_handlers, in the order of the dict, that the node
\* has a child for; 0 when it has none
FirstShape(node) ==
    IF \A k \in DOMAIN ShapeTags : ~Has(node, ShapeTags[k]) THEN 0
    ELSE CHOOSE k \in DOMAIN ShapeTags :
             /\ Has(node, ShapeTags[k])
             /\ \A j \in 1..(k - 1) : ~Has(node, ShapeTags[j])

\* the pairs as they are listed, relative to the anchor
RelativePoints(parsed, obj) ==
    [i \in DOMAIN parsed |-> Point(parsed[i][1], parsed[i][2])]
\* shape.py line 98: each pair translated by the anchor of the object
AbsolutePoints(parsed, obj) ==
    [i \in DOMAIN parsed |-> Point(parsed[i][1] + obj.x, parsed[i][2] + obj.y)]

\* shape.py lines 41-101: the object after the call and the value returned:
\* a list of points (listed) or None, unless a ValueError is raised; not grid
\* when a listed coordinate is not counted
parse_shape_data(obj, node) ==
    IF FirstShape(node) = 0
    THEN [raised |-> FALSE, grid |-> TRUE, obj |-> obj, listed |-> FALSE,
          ret |-> <<>>]
    ELSE LET tag == ShapeTags[FirstShape(node)]
             typed == [obj EXCEPT !.object_type = tag]
         IN  IF tag = "ellipse"
             THEN [raised |-> FALSE, grid |-> TRUE,
                   obj |-> [typed EXCEPT
                               !.has_points = TRUE,
                               !.points = generate_ellipse_points(
                                   obj.x, obj.y, obj.width, obj.height)],
                   listed |-> TRUE,
                   ret |-> generate_ellipse_points(obj.x, obj.y, obj.width,
                                                   obj.height)]
             ELSE IF tag = "text"
             THEN \* line 83: int() of the pixelsize attribute
                  [raised |-> ~ParseInt(Find(node, tag).pixelsize).ok,
                   grid |-> TRUE, obj |-> typed, listed |-> FALSE,
                   ret |-> <<>>]
             ELSE IF tag \in {"polygon", "polyline"}
             THEN LET parsed == read_points(Find(node, tag).points)
                  IN  IF ~parsed.ok \/ ~parsed.grid
                      THEN [raised |-> ~parsed.ok, grid |-> parsed.grid,
                            obj |-> typed, listed |-> FALSE, ret |-> <<>>]
                      ELSE [raised |-> FALSE, grid |-> TRUE,
                            obj |-> [typed EXCEPT
                                        !.closed = (tag = "polygon")],
                            listed |-> TRUE,
                            ret |-> AbsolutePoints(parsed.pairs, obj)]
             ELSE [raised |-> FALSE, grid |-> TRUE, obj |-> typed,
                   listed |-> FALSE, ret |-> <<>>]

\* max(c) - min(c) over the coordinates c of a non-empty list of points
Extent(cs) ==
    (CHOOSE a \in cs : \A b \in cs : b <= a)
        - (CHOOSE a \in cs : \A b \in cs : a <= b)

\* object.py lines 113-115: a gid makes the object a tile object
Registered(set) ==
    IF set.gid # G(0)
    THEN [set EXCEPT !.object_type = "tile",
                     !.gid = register_gid_check_flags(set.gid)]
    ELSE set
\* object.py lines 125-133 and template.py lines 69-75: the size and the
\* points after parse_shape_data returned ret, a list (listed) or None
Shaped(obj, listed, ret) ==
    IF listed /\ obj.object_type = "ellipse"
    THEN \* the list of 16 points is not empty
         [obj EXCEPT !.width = Abs(obj.width), !.height = Abs(obj.height)]
    ELSE IF listed /\ ret # <<>>
    THEN [obj EXCEPT !.width = Extent({ret[i].x : i \in DOMAIN ret}),
                     !.height = Extent({ret[i].y : i \in DOMAIN ret}),
                     !.has_points = TRUE,
                     !.points = ret]
    ELSE IF obj.object_type = "rectangle"
    THEN [obj EXCEPT !.has_points = TRUE,
                     !.points = generate_rectangle_points(
                                    obj.x, obj.y, obj.width, obj.height)]
    ELSE obj
\* the object after the shape is assigned, given what parse_shape_data did
AfterShape(shape) ==
    [raised |-> shape.raised, grid |-> shape.grid,
     obj |-> IF shape.raised \/ ~shape.grid THEN shape.obj
             ELSE Shaped(shape.obj, shape.listed, shape.ret)]

\* int(float(text)) for a number of half pixels: cut toward zero to whole
\* pixels
IntOfFloat(value) == 2 * Truncate(Exact(value))
\* template.py lines 41-53: the attributes of the node once more, then x, y,
\* width, height and rotation as ints, from the template where the node has
\* none, and the gid of the node
Inherited(obj, node, template_obj) ==
    [SetProperties(obj, node) EXCEPT
        !.x = IntOfFloat(IF "x" \in node.absent THEN template_obj.x
                         ELSE node.x),
        !.y = IntOfFloat(IF "y" \in node.absent THEN template_obj.y
                         ELSE node.y),
        !.width = IntOfFloat(IF "width" \in node.absent
                             THEN template_obj.width ELSE node.width),
        !.height = IntOfFloat(IF "height" \in node.absent
                              THEN template_obj.height ELSE node.height),
        !.rotation = IF "rotation" \in node.absent THEN template_obj.rotation
                     ELSE node.rotation,
        !.gid = register_gid_check_flags(node.gid)]
\* template.py lines 56-59
PolygonTyped(obj, node, template_obj) ==
    IF Has(node, "polygon") \/ template_obj.object_type = "polygon"
    THEN [obj EXCEPT !.object_type = "polygon"]
    ELSE obj
\* template.py lines 62-66: the shape of the node, or the shape of the node
\* of the template when that returned None
TemplateShape(shape, template_node) ==
    IF shape.raised \/ ~shape.grid \/ shape.listed THEN shape
    ELSE parse_shape_data(shape.obj, template_node)
\* template.py lines 33-75
apply_template_to_object(obj, node, template) ==
    AfterShape(TemplateShape(
        parse_shape_data(PolygonTyped(Inherited(obj, node, template.obj),
                                      node, template.obj), node),
        template.node))
\* object.py lines 117-121
Templated(obj, node) ==
    IF node.template = <<>>
    THEN [raised |-> FALSE, grid |-> TRUE, obj |-> obj]
    ELSE apply_template_to_object(obj, node, node.template[1])
\* object.py lines 123-133
ShapeParsed(applied, node) ==
    IF applied.raised \/ ~applied.grid THEN applied
    ELSE AfterShape(parse_shape_data(applied.obj, node))
\* object.py lines 107-135: the object after the call, unless a ValueError
\* is raised or a coordinate is not counted
parse_xml(self, node) ==
    ShapeParsed(Templated(Registered(SetProperties(self, node)), node), node)
\* the constructor: the defaults, then parse_xml
TiledObject(node) == parse_xml(Defaults, node).obj

(***************************************************************************)
(* The methods of TiledObject.  A call returns [raised, value]: the name   *)
(* of the exception it raised ("None" when it returned) and its value.     *)
(***************************************************************************)
Return(value) == [raised |-> "None", value |-> value]
Raise(exception) == [raised |-> exception, value |-> FALSE]
NoCall == [name |-> "None", args |-> <<>>]

\* object.py lines 144-155
as_points(self) ==
    <<Point(self.x, self.y),
      Point(self.x, self.y + self.height),
      Point(self.x + self.width, self.y + self.height),
      Point(self.x + self.width, self.y)>>

\* object.py lines 137-142
apply_transformations(self) ==
    IF self.has_points
    THEN rotate(self.points, Point(self.x, self.y), self.rotation)
    ELSE rotate(as_points(self), Point(self.x, self.y), self.rotation)

Xs(points) == { points[i].x : i \in DOMAIN points }
Ys(points) == { points[i].y : i \in DOMAIN points }

\* a bounding box that rounds down, not toward zero
get_bounding_box_floored(self) ==
    LET rotated_points == apply_transformations(self)
    IN  <<FloorFlt(MinFlt(Xs(rotated_points))),
          FloorFlt(MinFlt(Ys(rotated_points))),
          FloorFlt(MaxFlt(Xs(rotated_points))),
          FloorFlt(MaxFlt(Ys(rotated_points)))>>
\* object.py lines 171-176, in whole pixels
get_bounding_box(self) ==
    LET rotated_points == apply_transformations(self)
    IN  <<Truncate(MinFlt(Xs(rotated_points))),
          Truncate(MinFlt(Ys(rotated_points))),
          Truncate(MaxFlt(Xs(rotated_points))),
          Truncate(MaxFlt(Ys(rotated_points)))>>

\* object.py lines 198-206
intersects_with_rect(self, other_rect) ==
    LET self_rect == get_bounding_box(self)
    IN  /\ self_rect[1] < other_rect[3]
        /\ self_rect[3] > other_rect[1]
        /\ self_rect[2] < other_rect[4]
        /\ self_rect[4] > other_rect[2]

\* object.py lines 157-169, in quarter pixels: <<center, radius_x, radius_y>>
\* for an ellipse, None (the empty tuple) for any other object
as_ellipse(self) ==
    IF self.object_type = "ellipse"
    THEN <<Point(2 * self.x + self.width, 2 * self.y + self.height),
           self.width, self.height>>
    ELSE <<>>

\* object.py lines 185-191, the ellipse branch of collides_with_point, for a
\* point in whole pixels.  Each of the two quotients raises when its radius
\* is zero.  The quotients are ratios of small integers: their sum is either
\* exactly 1, where the doubles still add up to 1.0 or just below, or away
\* from 1 by far more than the rounding, so the comparison is the exact one.
collides_with_point_ellipse(self, x, y) ==
    LET center == as_ellipse(self)[1]
        rx == as_ellipse(self)[2]
        ry == as_ellipse(self)[3]
        dx == 4 * x - center.x
        dy == 4 * y - center.y
    IN  IF rx * rx = 0 \/ ry * ry = 0 THEN Raise("ZeroDivisionError")
        ELSE Return((dx * dx) * (ry * ry) + (dy * dy) * (rx * rx)
                        <= (rx * rx) * (ry * ry))

\* the coordinates in half pixels of points that carry no residue
Halves(points) ==
    [i \in DOMAIN points |-> Point(points[i].x.v, points[i].y.v)]

\* object.py lines 220-229, get_axes before the division by the length: the
\* normals of the edges
Normals(polygon) ==
    [i \in DOMAIN polygon |->
        LET p1 == polygon[i]
            p2 == polygon[Following(i, 1, Len(polygon))]
        IN  Point(-(p2.y - p1.y), p2.x - p1.x)]
\* object.py lines 231-233, project, onto a normal that is not normalised.
\* For a normal along an axis the division by the length gives -1.0 or 1.0
\* and the dot products are exact.  For a diagonal normal the quotients are
\* rounded; the dot products of the code then differ from the exact ones by
\* some 1e-16, which keeps their order unless two of them are equal.
project(polygon, axis) ==
    LET dots == { polygon[i].x * axis.x + polygon[i].y * axis.y :
                      i \in DOMAIN polygon }
    IN  <<CHOOSE a \in dots : \A b \in dots : a <= b,
          CHOOSE a \in dots : \A b \in dots : b <= a>>
Separates(axis, poly1, poly2) ==
    \/ project(poly1, axis)[2] < project(poly2, axis)[1]
    \/ project(poly2, axis)[2] < project(poly1, axis)[1]
\* the projections of the two polygons onto a diagonal normal meet in one
\* value: there the rounding of the code decides whether max1 < min2
DiagonalTie(poly1, poly2) ==
    LET axes == Normals(poly1) \o Normals(poly2)
    IN  \E i \in DOMAIN axes :
            /\ axes[i].x # 0
            /\ axes[i].y # 0
            /\ \/ project(poly1, axes[i])[2] = project(poly2, axes[i])[1]
               \/ project(poly2, axes[i])[2] = project(poly1, axes[i])[1]
\* a zero-length edge: its normal has length 0.0
ZeroLength(axes) == \E i \in DOMAIN axes : axes[i] = Point(0, 0)

\* object.py lines 212-243, for objects that are not rotated and polygons
\* without a DiagonalTie
intersects_with_polygon(self, other) ==
    LET poly1 == Halves(apply_transformations(self))
        poly2 == Halves(apply_transformations(other))
        axes == Normals(poly1) \o Normals(poly2)
    IN  IF ~is_convex(poly1) \/ ~is_convex(poly2) THEN Raise("ValueError")
        ELSE IF ZeroLength(axes) THEN Raise("ZeroDivisionError")
        ELSE Return(~\E i \in DOMAIN axes : Separates(axes[i], poly1, poly2))

\* an adjustment that drags the stored points along with the anchor
adjust_gid_object_position_with_points(self, orientation, rotation, tilewidth, tileheight, invert_y) ==
    LET position == AdjustedPosition(2, self.x, self.y, self.width,
                                     self.height, orientation, rotation,
                                     tilewidth, tileheight, invert_y)
    IN  [self EXCEPT !.x = position[1], !.y = position[2],
                     !.points = [i \in DOMAIN self.points |->
                                    Point(self.points[i].x + position[1] - self.x,
                                          self.points[i].y + position[2] - self.y)]]
\* object.py lines 245-267: the attributes are floats, counted in half pixels
adjust_gid_object_position(self, orientation, rotation, tilewidth, tileheight, invert_y) ==
    LET position == AdjustedPosition(2, self.x, self.y, self.width,
                                     self.height, orientation, rotation,
                                     tilewidth, tileheight, invert_y)
    IN  [self EXCEPT !.x = position[1], !.y = position[2]]

(***************************************************************************)
(* An object of a map: built from its node, then moved by                  *)
(* adjust_gid_object_position and asked for its transformed points, its    *)
(* bounding box and its intersection with rectangles.                      *)
(***************************************************************************)
MaxAdjust == 2

\* rectangles with negative and fractional anchors, tile objects, polygons,
\* polylines and objects with other children; coordinates in half pixels
RectangleNodes ==
    { Node(x, y, size[1], size[2], rotation, G(0), <<>>) :
          x \in {-3, 10}, y \in {-5, 4}, size \in {<<6, 9>>, <<4, 0>>},
          rotation \in {0, 90, 180, 270} }
TileNodes ==
    { Node(10, 4, 6, 8, rotation, G(5), <<>>) : rotation \in {0, 90} }
PointTexts ==
    {TriangleText, FractionText, SpacedText, SinglePointText, EmptyText,
     BadNumberText, BadPairText, LongPairText}
\* a template of 50 x 60, 70 x 80 pixels; a template with a polygon
BoxTemplate ==
    Template(TiledObject(Node(100, 120, 140, 160, 0, G(0), <<>>)),
             Node(100, 120, 140, 160, 0, G(0), <<>>))
PolygonTemplate ==
    Template(TiledObject(Node(2, 2, 0, 0, 90, G(0),
                              <<Child("polygon", TriangleText)>>)),
             Node(2, 2, 0, 0, 90, G(0), <<Child("polygon", TriangleText)>>))
\* nodes that name a template: one with no attribute of its own, one with
\* fractional attributes, one that takes its shape from the template
TemplateNodes ==
    { FromTemplate(Node(0, 0, 0, 0, 0, G(0), <<>>),
                   {"x", "y", "width", "height", "rotation"}, BoxTemplate),
      FromTemplate(Node(3, -5, 6, 9, 0, G(0), <<>>), {"rotation"},
                   BoxTemplate),
      FromTemplate(Node(-3, 5, 0, 0, 0, G(0), <<>>),
                   {"width", "height", "rotation"}, PolygonTemplate),
      FromTemplate(Node(3, -5, 0, 0, 0, G(0),
                        <<Child("polyline", FractionText)>>),
                   {"width", "height", "rotation"}, PolygonTemplate) }
ShapeNodes ==
    { Node(-3, 4, 2, 2, rotation, G(0), <<Child(tag, text)>>) :
          rotation \in {0, 90}, tag \in {"polygon", "polyline"},
          text \in PointTexts }
    \cup { Node(-3, 4, 2, 2, 0, G(0), <<Child("polyline", TriangleText),
                                        Child("polygon", FractionText)>>),
           Node(-3, 4, 2, 2, 0, G(0), <<Child("point", <<>>)>>),
           Node(-3, 4, 2, 2, 0, G(0), <<Child("text", <<>>),
                                        Child("polyline", TriangleText)>>),
           Node(10, 4, 6, 8, 0, G(5), <<Child("polygon", TriangleText)>>),
           \* a rectangle turned about an anchor on the axis
           Node(0, 4, 6, 9, 90, G(0), <<>>),
           \* floats in other notations, other blanks, floats off the grid
           Node(-3, 4, 2, 2, 90, G(0), <<Child("polygon", ExponentText)>>),
           Node(-3, 4, 2, 2, 0, G(0), <<Child("polyline", FormFeedText)>>),
           Node(-3, 4, 2, 2, 0, G(0), <<Child("polygon", QuarterText)>>),
           \* text with a pixelsize that is an int, and one that is not
           Node(-3, 4, 2, 2, 0, G(0), <<TextChild(<<" ", "2", "0">>)>>),
           Node(-3, 4, 2, 2, 0, G(0),
                <<TextChild(<<"1", "2", ".", "5">>)>>) }
ObjectNodes ==
    RectangleNodes \cup TileNodes \cup ShapeNodes \cup TemplateNodes

\* the arguments of adjust_gid_object_position after self
AdjustCalls ==
    [orientation : {"orthogonal", "isometric"}, rotation : {0, 90, 180},
     tilewidth : {3}, tileheight : {2}, invert_y : {TRUE}]
\* rectangles (x1, y1, x2, y2) in whole pixels
OtherRects ==
    {<<-2, -3, -1, -2>>, <<0, 0, 2, 2>>, <<5, 2, 8, 6>>}

obRest == <<gidVars, stVars, exVars, dcVars, rsVars, lyVars, rotVars, pgVars,
            tpVars, adVars>>

ObjectInit ==
    /\ ob_node \in ObjectNodes
    /\ ob_self = Defaults
    /\ ob_other = <<>>
    /\ ob_pc = "new"
    /\ ob_adjusted = 0
    /\ ob_call = NoCall
    /\ ob_ret = Return(FALSE)

Called(name, args) == [name |-> name, args |-> args]

\* TiledObject.__init__: parse_xml on the node; a ValueError leaves no
\* object, and an object with points that are not counted is not followed
ParseXml ==
    /\ ob_pc = "new"
    /\ LET Constructed(result) ==
               /\ ob_self' = result.obj
               /\ ob_pc' = IF result.raised THEN "ValueError"
                           ELSE IF ~result.grid THEN "uncounted" ELSE "ready"
               /\ ob_ret' = IF result.raised THEN Raise("ValueError")
                            ELSE Return(FALSE)
       IN  Constructed(parse_xml(ob_self, ob_node))
    /\ ob_call' = Called("parse_xml", <<>>)
    /\ UNCHANGED <<ob_node, ob_other, ob_adjusted, obRest>>

AdjustGidObjectPosition(a) ==
    /\ ob_pc = "ready"
    /\ ob_adjusted < MaxAdjust
    /\ ob_self' = adjust_gid_object_position(
                      ob_self, a.orientation, a.rotation, a.tilewidth,
                      a.tileheight, a.invert_y)
    /\ ob_adjusted' = ob_adjusted + 1
    /\ ob_call' = Called("adjust_gid_object_position", <<a>>)
    /\ ob_ret' = Return(FALSE)
    /\ UNCHANGED <<ob_node, ob_other, ob_pc, obRest>>

ApplyTransformations ==
    /\ ob_pc = "ready"
    /\ ob_call' = Called("apply_transformations", <<>>)
    /\ ob_ret' = Return(apply_transformations(ob_self))
    /\ UNCHANGED <<ob_node, ob_self, ob_other, ob_pc, ob_adjusted, obRest>>

GetBoundingBox ==
    /\ ob_pc = "ready"
    /\ ob_call' = Called("get_bounding_box", <<>>)
    /\ ob_ret' = Return(get_bounding_box(ob_self))
    /\ UNCHANGED <<ob_node, ob_self, ob_other, ob_pc, ob_adjusted, obRest>>

IntersectsWithRect(other_rect) ==
    /\ ob_pc = "ready"
    /\ ob_call' = Called("intersects_with_rect", <<other_rect>>)
    /\ ob_ret' = Return(intersects_with_rect(ob_self, other_rect))
    /\ UNCHANGED <<ob_node, ob_self, ob_other, ob_pc, ob_adjusted, obRest>>

InitObject ==
    /\ CoreIdle /\ DecoderIdle /\ ReshapeIdle /\ LayerIdle /\ RotationIdle
    /\ PolygonIdle /\ TilePosIdle /\ AdjustIdle /\ ObjectInit
NextObject ==
    \/ ParseXml
    \/ \E a \in AdjustCalls : AdjustGidObjectPosition(a)
    \/ ApplyTransformations
    \/ GetBoundingBox
    \/ \E other_rect \in OtherRects : IntersectsWithRect(other_rect)
SpecObject == InitObject /\ [][NextObject]_vars

\* f is a least (greatest) element of the doubles fs
Least(f, fs) == f \in fs /\ \A g \in fs : ~FltLess(g, f)
Greatest(f, fs) == f \in fs /\ \A g \in fs : ~FltLess(f, g)
\* the integer c is the double f cut toward zero: between 0 and f, less than
\* one pixel from f
TowardZero(c, f) ==
    IF FltLess(f, Exact(0))
    THEN c <= 0 /\ FltLess(Exact(2 * c - 2), f) /\ ~FltLess(Exact(2 * c), f)
    ELSE c >= 0 /\ ~FltLess(f, Exact(2 * c)) /\ FltLess(f, Exact(2 * c + 2))

\* C22: get_bounding_box returns (min x, min y, max x, max y) over the points
\* rotated by the rotation of the object about its anchor, each component cut
\* toward zero to an integer, for negative coordinates as well.
C22_BoxTruncatesTowardZero ==
    ob_call.name = "get_bounding_box" =>
        LET rotated == apply_transformations(ob_self)
            box == ob_ret.value
        IN  /\ ob_ret.raised = "None"
            /\ \E f \in Xs(rotated) :
                   Least(f, Xs(rotated)) /\ TowardZero(box[1], f)
            /\ \E f \in Ys(rotated) :
                   Least(f, Ys(rotated)) /\ TowardZero(box[2], f)
            /\ \E f \in Xs(rotated) :
                   Greatest(f, Xs(rotated)) /\ TowardZero(box[3], f)
            /\ \E f \in Ys(rotated) :
                   Greatest(f, Ys(rotated)) /\ TowardZero(box[4], f)
\* the box of a rotated object whose least abscissa is negative and no whole
\* number of pixels, where cutting and rounding down differ
C22_Witness ==
    /\ ob_call.name = "get_bounding_box"
    /\ ob_self.rotation # 0
    /\ \E f \in Xs(apply_transformations(ob_self)) :
           /\ Least(f, Xs(apply_transformations(ob_self)))
           /\ FltLess(f, Exact(0))
           /\ f.v % 2 = 1 \/ f.r # 0
           /\ ob_ret.value[1] = FloorFlt(f) + 1

\* C29 as stated: the box returned by get_bounding_box contains every
\* transformed vertex of the object, with fractional or negative coordinates
\* as well.
C29_AsStated ==
    ob_call.name = "get_bounding_box" =>
        LET rotated == apply_transformations(ob_self)
            box == ob_ret.value
        IN  \A i \in DOMAIN rotated :
                /\ ~FltLess(rotated[i].x, Exact(2 * box[1]))
                /\ ~FltLess(Exact(2 * box[3]), rotated[i].x)
                /\ ~FltLess(rotated[i].y, Exact(2 * box[2]))
                /\ ~FltLess(Exact(2 * box[4]), rotated[i].y)
\* a vertex lies left of the box, and intersects_with_rect misses a rectangle
\* that overlaps the extent of the vertices
C29_VertexOutsideBox ==
    /\ ob_call.name = "intersects_with_rect"
    /\ ob_ret.value = FALSE
    /\ LET rotated == apply_transformations(ob_self)
           other_rect == ob_call.args[1]
       IN  /\ \E i \in DOMAIN rotated :
                  FltLess(rotated[i].x, Exact(2 * get_bounding_box(ob_self)[1]))
           /\ \E i, j \in DOMAIN rotated :
                  /\ FltLess(rotated[i].x, Exact(2 * other_rect[3]))
                  /\ FltLess(Exact(2 * other_rect[1]), rotated[j].x)
           /\ \E i, j \in DOMAIN rotated :
                  /\ FltLess(rotated[i].y, Exact(2 * other_rect[4]))
                  /\ FltLess(Exact(2 * other_rect[2]), rotated[j].y)

\* C30: adjust_gid_object_position changes only x and y: after any sequence
\* of calls the width, height, rotation, gid and stored points are those the
\* object had when it was parsed, and apply_transformations rotates the stored
\* points about the new anchor.
C30_OnlyAnchorMoves ==
    ob_pc = "ready" =>
        /\ ob_self = [parse_xml(Defaults, ob_node).obj EXCEPT
                         !.x = ob_self.x, !.y = ob_self.y]
        /\ ob_call.name = "apply_transformations" /\ ob_self.has_points =>
               ob_ret.value = rotate(ob_self.points,
                                     Point(ob_self.x, ob_self.y),
                                     ob_self.rotation)
\* a rotated object with stored points, moved away from the anchor of its
\* node, is asked for its transformed points
C30_Witness ==
    /\ ob_pc = "ready"
    /\ ob_adjusted > 0
    /\ ob_self.has_points
    /\ ob_self.rotation # 0
    /\ ob_self.x # ob_node.x \/ ob_self.y # ob_node.y
    /\ ob_call.name = "apply_transformations"

\* the polygon or polyline child that parse_shape_data reads: polygon first
ListedTag(node) == IF Has(node, "polygon") THEN "polygon" ELSE "polyline"
ListedPairs(node) == read_points(Find(node, ListedTag(node)).points).pairs
Corners(node) ==
    <<Point(node.x, node.y), Point(node.x + node.width, node.y),
      Point(node.x + node.width, node.y + node.height),
      Point(node.x, node.y + node.height)>>
Listed(node) ==
    [i \in DOMAIN ListedPairs(node) |->
        Point(ListedPairs(node)[i][1] + node.x,
              ListedPairs(node)[i][2] + node.y)]

\* C24 as stated (objects that name no template): for a polygon or polyline
\* child the points are the listed pairs in their order, each translated by
\* the anchor, closed is true for a polygon and false for a polyline, and
\* width and height are the extent of the points; with no shape child the
\* declared width and height stand and the points are the four corners
\* (x,y), (x+w,y), (x+w,y+h), (x,y+h).
C24_AsStated ==
    ob_pc = "ready" /\ ob_node.template = <<>> =>
        IF Has(ob_node, "polygon") \/ Has(ob_node, "polyline")
        THEN /\ ob_self.has_points
             /\ ob_self.points = Listed(ob_node)
             /\ ob_self.closed = (ListedTag(ob_node) = "polygon")
             /\ Listed(ob_node) # <<>> =>
                    /\ ob_self.width = Extent(Xs(Listed(ob_node)))
                    /\ ob_self.height = Extent(Ys(Listed(ob_node)))
        ELSE FirstShape(ob_node) = 0 =>
                 /\ ob_self.width = ob_node.width
                 /\ ob_self.height = ob_node.height
                 /\ ob_self.has_points
                 /\ ob_self.points = Corners(ob_node)
\* C24, amended, for objects that name no template: as stated for a polygon
\* or polyline that lists at least one pair and for an object with no shape
\* child and no gid; a polygon or polyline that lists no pair keeps the
\* declared width and height and gets no points, and a tile object (gid)
\* with no shape child gets no points.
C24_ShapePoints ==
    ob_pc = "ready" /\ ob_node.template = <<>> =>
        IF Has(ob_node, "polygon") \/ Has(ob_node, "polyline")
        THEN /\ ob_self.closed = (ListedTag(ob_node) = "polygon")
             /\ IF Listed(ob_node) # <<>>
                THEN /\ ob_self.has_points
                     /\ ob_self.points = Listed(ob_node)
                     /\ ob_self.width = Extent(Xs(Listed(ob_node)))
                     /\ ob_self.height = Extent(Ys(Listed(ob_node)))
                ELSE /\ ~ob_self.has_points
                     /\ ob_self.width = ob_node.width
                     /\ ob_self.height = ob_node.height
        ELSE FirstShape(ob_node) = 0 =>
                 /\ ob_self.width = ob_node.width
                 /\ ob_self.height = ob_node.height
                 /\ IF ob_node.gid = G(0)
                    THEN /\ ob_self.has_points
                         /\ ob_self.points = Corners(ob_node)
                    ELSE ~ob_self.has_points
\* a polyline of three pairs, listed after another child, at an anchor that
\* is not the origin
C24_Witness ==
    /\ ob_pc = "ready"
    /\ ob_adjusted = 0
    /\ Has(ob_node, "polyline") /\ ~Has(ob_node, "polygon")
    /\ Len(ob_node.children) = 2
    /\ ob_node.x # 0 /\ ob_node.y # 0
    /\ Len(ob_self.points) = 3
    /\ ~ob_self.closed
    /\ ob_self.width = 8 /\ ob_self.height = 6

(***************************************************************************)
(* collides_with_point on ellipse objects                                  *)
(***************************************************************************)
EllipseNodes ==
    { Node(x, 0, width, height, 0, G(0), <<Child("ellipse", <<>>)>>) :
          x \in {-3, 4}, width \in {0, 4, 6}, height \in {0, 4} }
\* the query points, in whole pixels
QueryXs == (-2)..5
QueryYs == (-1)..3

EllipseInit ==
    /\ ob_node \in EllipseNodes
    /\ ob_self = Defaults
    /\ ob_other = <<>>
    /\ ob_pc = "new"
    /\ ob_adjusted = 0
    /\ ob_call = NoCall
    /\ ob_ret = Return(FALSE)

\* object.py lines 178-196 for an object of type ellipse
CollidesWithPoint(x, y) ==
    /\ ob_pc = "ready"
    /\ ob_self.object_type = "ellipse"
    /\ ob_call' = Called("collides_with_point", <<x, y>>)
    /\ ob_ret' = collides_with_point_ellipse(ob_self, x, y)
    /\ UNCHANGED <<ob_node, ob_self, ob_other, ob_pc, ob_adjusted, obRest>>

InitEllipse ==
    /\ CoreIdle /\ DecoderIdle /\ ReshapeIdle /\ LayerIdle /\ RotationIdle
    /\ PolygonIdle /\ TilePosIdle /\ AdjustIdle /\ EllipseInit
NextEllipse ==
    \/ ParseXml
    \/ \E x \in QueryXs, y \in QueryYs : CollidesWithPoint(x, y)
SpecEllipse == InitEllipse /\ [][NextEllipse]_vars

\* C23 as stated: for every ellipse object and every query point,
\* collides_with_point returns a boolean, true exactly when
\* (dx/rx)^2 + (dy/ry)^2 <= 1 with center (x + width/2, y + height/2),
\* rx = width/2 and ry = height/2.  In quarter pixels the radii are width and
\* height and the center is (2x + width, 2y + height).
C23_AsStated ==
    ob_call.name = "collides_with_point" =>
        LET rx == ob_self.width
            ry == ob_self.height
            dx == 4 * ob_call.args[1] - (2 * ob_self.x + ob_self.width)
            dy == 4 * ob_call.args[2] - (2 * ob_self.y + ob_self.height)
        IN  /\ ob_ret.raised = "None"
            /\ ob_ret.value \in BOOLEAN
            /\ rx # 0 /\ ry # 0 =>
                   ob_ret.value =
                       (dx * dx * ry * ry + dy * dy * rx * rx
                            <= rx * rx * ry * ry)
\* the query of an ellipse of width zero ends in a ZeroDivisionError
C23_ZeroRadiusRaises ==
    /\ ob_call.name = "collides_with_point"
    /\ ob_self.object_type = "ellipse"
    /\ ob_self.width = 0
    /\ ob_self.height # 0
    /\ ob_ret.raised = "ZeroDivisionError"
\* where both radii are positive the answer is the analytic one, the boundary
\* included
C23_AnalyticWhereDefined ==
    ob_call.name = "collides_with_point"
    /\ ob_self.width # 0 /\ ob_self.height # 0 =>
        LET dx == 4 * ob_call.args[1] - (2 * ob_self.x + ob_self.width)
            dy == 4 * ob_call.args[2] - (2 * ob_self.y + ob_self.height)
        IN  ob_ret = Return(dx * dx * ob_self.height * ob_self.height
                              + dy * dy * ob_self.width * ob_self.width
                                <= ob_self.width * ob_self.width
                                     * ob_self.height * ob_self.height)

(***************************************************************************)
(* intersects_with_polygon on pairs of objects that are not rotated        *)
(***************************************************************************)
SatNodes ==
    { Node(x, y, size[1], size[2], 0, G(0), <<>>) :
          x \in {0, 4, 12}, y \in {0, 6},
          size \in {<<6, 6>>, <<4, 2>>, <<0, 4>>} }
    \cup { Node(0, 0, 4, 0, 0, G(0), <<>>) }
    \cup { Node(x, 0, 2, 2, 0, G(0), <<Child("polygon", text)>>) :
               x \in {0, 4},
               text \in {TriangleText, ArrowText, RepeatText} }
    \cup { Node(4, 0, 6, 6, 0, G(5), <<>>) }
Polygon(node) == Halves(apply_transformations(TiledObject(node)))
\* the pairs where the rounding of a normalised diagonal axis decides nothing
SatPairs ==
    { pair \in SatNodes \X SatNodes :
          ~DiagonalTie(Polygon(pair[1]), Polygon(pair[2])) }

SatInit ==
    /\ \E pair \in SatPairs :
           /\ ob_node = pair[1]
           /\ ob_other = TiledObject(pair[2])
    /\ ob_self = Defaults
    /\ ob_pc = "new"
    /\ ob_adjusted = 0
    /\ ob_call = NoCall
    /\ ob_ret = Return(FALSE)

IntersectsWithPolygon ==
    /\ ob_pc = "ready"
    /\ ob_call' = Called("intersects_with_polygon", <<>>)
    /\ ob_ret' = intersects_with_polygon(ob_self, ob_other)
    /\ UNCHANGED <<ob_node, ob_self, ob_other, ob_pc, ob_adjusted, obRest>>

InitSat ==
    /\ CoreIdle /\ DecoderIdle /\ ReshapeIdle /\ LayerIdle /\ RotationIdle
    /\ PolygonIdle /\ TilePosIdle /\ AdjustIdle /\ SatInit
NextSat == ParseXml \/ IntersectsWithPolygon
SpecSat == InitSat /\ [][NextSat]_vars

\* the interval of the dot products of the vertices with a vector
Interval(polygon, vector) ==
    { polygon[i].x * vector.x + polygon[i].y * vector.y : i \in DOMAIN polygon }
Apart(values1, values2) ==
    \/ \A a \in values1, b \in values2 : a < b
    \/ \A a \in values1, b \in values2 : b < a
EdgeNormals(polygon) ==
    { Point(polygon[i].y - polygon[Following(i, 1, Len(polygon))].y,
            polygon[Following(i, 1, Len(polygon))].x - polygon[i].x) :
          i \in DOMAIN polygon }

\* C21 as stated: intersects_with_polygon raises an error when the transformed
\* vertex list of either object is not convex; otherwise it returns false
\* exactly when the projections of the two polygons onto the normal of some
\* edge of either polygon are disjoint, and true when there is no such axis.
C21_AsStated ==
    ob_call.name = "intersects_with_polygon" =>
        LET poly1 == Halves(apply_transformations(ob_self))
            poly2 == Halves(apply_transformations(ob_other))
        IN  IF ~is_convex(poly1) \/ ~is_convex(poly2)
            THEN ob_ret.raised # "None"
            ELSE ob_ret =
                     Return(~\E n \in EdgeNormals(poly1) \cup EdgeNormals(poly2) :
                                Apart(Interval(poly1, n), Interval(poly2, n)))
\* a polygon that repeats a vertex passes is_convex, and the call with a
\* rectangle ends in a ZeroDivisionError
C21_RepeatedVertexRaises ==
    /\ ob_call.name = "intersects_with_polygon"
    /\ ob_self.object_type = "polygon"
    /\ \E i \in 1..(Len(ob_self.points) - 1) :
           ob_self.points[i] = ob_self.points[i + 1]
    /\ is_convex(Halves(apply_transformations(ob_self)))
    /\ ob_other.object_type = "rectangle"
    /\ ob_other.width > 0 /\ ob_other.height > 0
    /\ ob_ret.raised = "ZeroDivisionError"

\* C28 as stated: intersects_with_polygon returns true or false, never
\* failing, for every pair of objects whose transformed vertex lists both
\* pass is_convex, a rectangle of zero width or height included.
C28_AsStated ==
    ob_call.name = "intersects_with_polygon"
    /\ is_convex(Halves(apply_transformations(ob_self)))
    /\ is_convex(Halves(apply_transformations(ob_other))) =>
        ob_ret.raised = "None" /\ ob_ret.value \in BOOLEAN
\* a rectangle of zero width passes is_convex, and the call with a rectangle
\* of positive size ends in a ZeroDivisionError
C28_ZeroWidthRaises ==
    /\ ob_call.name = "intersects_with_polygon"
    /\ ob_self.object_type = "rectangle"
    /\ ob_self.width = 0 /\ ob_self.height > 0
    /\ is_convex(Halves(apply_transformations(ob_self)))
    /\ ob_other.object_type = "rectangle"
    /\ ob_other.width > 0 /\ ob_other.height > 0
    /\ ob_ret.raised = "ZeroDivisionError"
\* without a zero-length edge the answer is the one of the separating axes:
\* overlapping rectangles intersect, disjoint ones do not
C28_AnswersWithoutZeroEdge ==
    ob_call.name = "intersects_with_polygon" =>
        LET poly1 == Halves(apply_transformations(ob_self))
            poly2 == Halves(apply_transformations(ob_other))
            normals == EdgeNormals(poly1) \cup EdgeNormals(poly2)
        IN  is_convex(poly1) /\ is_convex(poly2) /\ Point(0, 0) \notin normals =>
                ob_ret = Return(~\E n \in normals :
                                    Apart(Interval(poly1, n), Interval(poly2, n)))

====
